---------------------------- MODULE Spec2Model ----------------------------
(***************************************************************************)
(* A model of the mulamail2 server's mail core: the SMTP and POP3 clients  *)
(* of package mail and the API handlers that drive them (sendMail,         *)
(* fetchInbox, fetchMessage), the vault's LocalStorage over a file system, *)
(* and the registerIdentity handler.                                       *)
(*                                                                         *)
(* A string is a sequence of one-character strings; "NUL" stands for the   *)
(* byte 0.  A line read from a connection is the raw line as               *)
(* bufio.Reader.ReadString('\n') returns it, terminator included.          *)
(***************************************************************************)
EXTENDS Integers, Sequences, FiniteSets, TLC

VARIABLES
    fnOp,        \* the pure function being exercised (specification SpecFn)
    fnIn,        \* its input
    fnOut,       \* its result
    handler,     \* the API handler serving the request
    pc,          \* position of the handler in its code
    ph,          \* position inside cmd: "w" before the write, "r" before the read
    cfg,         \* SMTPConfig / POP3Config of the session: User, Pass, UseSSL
    req,         \* the decoded request: From, To, Subject, Body, ID
    conn,        \* the client's conn field
    reader,      \* the client's reader field: the lines its buffer holds, read from
                 \* the transport ahead of the reply that was asked for
    sock,        \* the transport the dial opened: "none", "open", "broken" (a read
                 \* or write on it has failed), "stalled" (open, but the server
                 \* sends nothing more), "closed"
    wire,        \* the lines written to the transport, in order
    calls,       \* the cmd calls made so far: op, lines put on the wire, outcome
    outstanding, \* command lines on the wire whose reply is still due
    mock,        \* the scripted POP3 server of the end-to-end test, if one is used
    msgs,        \* the entries List returned
    messages,    \* fetchInbox: the messages collected so far
    body,        \* the payload of the handler's answer
    idx,         \* loop index: recipients in Send, entries in fetchInbox
    opErr,       \* the error the session operation returned to the handler
    status,      \* the HTTP status the handler answered; 0 before
    baseDir,     \* LocalStorage: the baseDir field
    fs,          \* the file system: files (path to data) and dirs, by absolute path
    vop,         \* the last LocalStorage call: its arguments, result and the
                 \* file system entries it touched
    identities,  \* the identities collection: the records stored, in order
    broadcasts,  \* the transactions broadcast to the chain, in order
    regs         \* the registerIdentity requests being served: position, body, answer

fnVars == <<fnOp, fnIn, fnOut>>
sessVars == <<handler, pc, ph, cfg, req, conn, reader, sock, wire, calls, outstanding,
              mock, msgs, messages, body, idx, opErr, status>>
vaultVars == <<baseDir, fs, vop>>
regVars == <<identities, broadcasts, regs>>
vars == <<fnVars, sessVars, vaultVars, regVars>>

\* no LocalStorage is in use
VaultIdle == baseDir = <<>> /\ fs = <<>> /\ vop = [op |-> "none"]

\* no registerIdentity request is served
RegIdle == identities = <<>> /\ broadcasts = <<>> /\ regs = <<>>

---------------------------------------------------------------------------
(* Strings *)

CR == "\r"
LF == "\n"
CRLF == <<CR, LF>>
Digits == <<"0", "1", "2", "3", "4", "5", "6", "7", "8", "9">>

\* strings.HasPrefix
HasPrefix(s, p) == Len(s) >= Len(p) /\ SubSeq(s, 1, Len(p)) = p

\* strings.TrimRight(s, cutset)
RECURSIVE TrimRight(_, _)
TrimRight(s, cutset) ==
    IF s # <<>> /\ s[Len(s)] \in cutset
    THEN TrimRight(SubSeq(s, 1, Len(s) - 1), cutset)
    ELSE s

\* strings.TrimLeft(s, cutset)
RECURSIVE TrimLeft(_, _)
TrimLeft(s, cutset) ==
    IF s # <<>> /\ s[1] \in cutset THEN TrimLeft(Tail(s), cutset) ELSE s

\* strings.TrimSpace: the ASCII white space of the model's alphabet
TrimSpace(s) ==
    LET ws == {" ", "\t", CR, LF} IN TrimLeft(TrimRight(s, ws), ws)

\* strings.Index: the first position of sep in s, 0 when there is none
\* (Go's -1; positions here start at 1)
RECURSIVE IndexFrom(_, _, _)
IndexFrom(s, sep, i) ==
    IF i + Len(sep) - 1 > Len(s) THEN 0
    ELSE IF SubSeq(s, i, i + Len(sep) - 1) = sep THEN i
    ELSE IndexFrom(s, sep, i + 1)

Index(s, sep) == IndexFrom(s, sep, 1)

\* strings.Split(s, sep) for a non-empty sep
RECURSIVE Split(_, _)
Split(s, sep) ==
    LET i == Index(s, sep) IN
    IF i = 0 THEN <<s>>
    ELSE <<SubSeq(s, 1, i - 1)>> \o Split(SubSeq(s, i + Len(sep), Len(s)), sep)

\* strings.SplitN(s, sep, 2)
SplitN2(s, sep) ==
    LET i == Index(s, sep) IN
    IF i = 0 THEN <<s>>
    ELSE <<SubSeq(s, 1, i - 1), SubSeq(s, i + Len(sep), Len(s))>>

\* strings.Join
RECURSIVE Join(_, _)
Join(elems, sep) ==
    IF elems = <<>> THEN <<>>
    ELSE IF Len(elems) = 1 THEN elems[1]
    ELSE elems[1] \o sep \o Join(Tail(elems), sep)

DigitVal(c) == (CHOOSE i \in 1..10 : Digits[i] = c) - 1

AllDigits(s) == \A i \in 1..Len(s) : \E d \in 1..10 : Digits[d] = s[i]

RECURSIVE DecVal(_)
DecVal(s) == IF s = <<>> THEN 0 ELSE 10 * DecVal(SubSeq(s, 1, Len(s) - 1)) + DigitVal(s[Len(s)])

\* strconv.Atoi: an optional sign and then decimal digits; a syntax error gives
\* value 0.  (Values stay far below the int range; the range error is not modelled.)
Atoi(s) ==
    LET signed == s # <<>> /\ s[1] \in {"+", "-"}
        ds     == IF signed THEN Tail(s) ELSE s
        ok     == ds # <<>> /\ AllDigits(ds)
    IN  [val |-> IF ~ok THEN 0 ELSE IF signed /\ s[1] = "-" THEN 0 - DecVal(ds) ELSE DecVal(ds),
         ok  |-> ok]

\* fmt's %d
RECURSIVE Itoa(_)
Itoa(n) ==
    IF n < 0 THEN <<"-">> \o Itoa(0 - n)
    ELSE IF n < 10 THEN <<Digits[n + 1]>>
    ELSE Itoa(n \div 10) \o <<Digits[(n % 10) + 1]>>

UpperCase == <<"A","B","C","D","E","F","G","H","I","J","K","L","M","N","O","P","Q","R","S","T",
               "U","V","W","X","Y","Z">>
LowerCase == <<"a","b","c","d","e","f","g","h","i","j","k","l","m","n","o","p","q","r","s","t",
               "u","v","w","x","y","z">>

\* strings.ToLower
ToLower(s) ==
    [i \in 1..Len(s) |->
        IF \E j \in 1..26 : UpperCase[j] = s[i]
        THEN LowerCase[CHOOSE j \in 1..26 : UpperCase[j] = s[i]]
        ELSE s[i]]

\* the lines a server receives for bytes written to the connection: the text
\* between line ends
WireLines(bytes) ==
    LET parts == Split(bytes, CRLF) IN SubSeq(parts, 1, Len(parts) - 1)

---------------------------------------------------------------------------
(* Errors *)

NoErr == [kind |-> "nil", text |-> <<>>]
\* an error of the transport: io.EOF, a reset, a failed write
IoErr == [kind |-> "io", text |-> <<"E","O","F">>]
\* fmt.Errorf(prefix + "%s", line): a server status turned into an error
StatusErr(prefix, line) == [kind |-> "status", text |-> prefix \o line]

---------------------------------------------------------------------------
(* SMTP replies *)

\* readResponse's loop condition: the reply continues while the 4th character is '-'
IsContinuation(last) == ~(Len(last) < 4 \/ last[4] # "-")

\* readResponse's status test: 4xx / 5xx
\* (variant: only 5xx is an error)
IsErrorStatus5xxOnly(last) == Len(last) >= 1 /\ last[1] = "5"
IsErrorStatus(last) == Len(last) >= 1 /\ (last[1] = "4" \/ last[1] = "5")

\* SMTPClient.readResponse over the lines the reader will deliver; a read past the
\* end of stream is the reader's error.  n is the number of lines consumed.
RECURSIVE SmtpReadLoop(_, _)
SmtpReadLoop(stream, i) ==
    IF i > Len(stream) THEN [resp |-> <<>>, err |-> IoErr, n |-> Len(stream)]
    ELSE LET last == TrimRight(stream[i], {CR, LF}) IN
         IF IsContinuation(last) THEN SmtpReadLoop(stream, i + 1)
         ELSE IF IsErrorStatus(last)
              THEN [resp |-> last, err |-> StatusErr(<<"s","m","t","p",":"," ">>, last), n |-> i]
              ELSE [resp |-> last, err |-> NoErr, n |-> i]

SmtpReadResponse(stream) == SmtpReadLoop(stream, 1)

---------------------------------------------------------------------------
(* POP3 replies *)

\* POP3Client.readLine
Pop3ReadLine(stream, i) ==
    IF i > Len(stream) THEN [line |-> <<>>, err |-> IoErr]
    ELSE [line |-> TrimRight(stream[i], {CR, LF}), err |-> NoErr]

\* POP3Client.readResponse: one status line
Pop3ReadResponse(stream) ==
    LET r == Pop3ReadLine(stream, 1) IN
    IF r.err # NoErr THEN [resp |-> <<>>, err |-> r.err]
    ELSE IF HasPrefix(r.line, <<"-","E","R","R">>)
         THEN [resp |-> <<>>, err |-> StatusErr(<<"p","o","p","3",":"," ">>, r.line)]
         ELSE [resp |-> r.line, err |-> NoErr]

\* the dot-unstuffing of readDot
DotUnstuff(line) == IF HasPrefix(line, <<".", ".">>) THEN Tail(line) ELSE line

\* the dot-stuffing of Send
\* (variant: no stuffing)
DotStuffNone(line) == line
DotStuff(line) == IF HasPrefix(line, <<".">>) THEN <<".">> \o line ELSE line

\* POP3Client.readDot over the lines the reader will deliver
RECURSIVE ReadDotLoop(_, _, _)
ReadDotLoop(stream, i, acc) ==
    LET r == Pop3ReadLine(stream, i) IN
    IF r.err # NoErr THEN [lines |-> <<>>, err |-> r.err, n |-> Len(stream)]
    ELSE IF r.line = <<".">> THEN [lines |-> acc, err |-> NoErr, n |-> i]
    ELSE ReadDotLoop(stream, i + 1, Append(acc, DotUnstuff(r.line)))

ReadDot(stream) == ReadDotLoop(stream, 1, <<>>)

\* the loop of POP3Client.List over the block readDot returned
\* (variant: id and size exchanged)
RECURSIVE ListEntriesSwapped(_)
ListEntriesSwapped(ls) ==
    IF ls = <<>> THEN <<>>
    ELSE LET parts == SplitN2(TrimSpace(ls[1]), <<" ">>) IN
         (IF Len(parts) # 2 THEN <<>>
          ELSE <<[ID |-> Atoi(parts[2]).val, Size |-> Atoi(parts[1]).val]>>)
         \o ListEntriesSwapped(Tail(ls))

RECURSIVE ListEntries(_)
ListEntries(ls) ==
    IF ls = <<>> THEN <<>>
    ELSE LET parts == SplitN2(TrimSpace(ls[1]), <<" ">>) IN
         (IF Len(parts) # 2 THEN <<>>
          ELSE <<[ID |-> Atoi(parts[1]).val, Size |-> Atoi(parts[2]).val]>>)
         \o ListEntries(Tail(ls))

\* parseHeaders: the map built from the lines before the first empty one
\* (variant: an empty line is passed over and the lines after it are read too)
RECURSIVE ParseHeaderLinesPastBlank(_, _)
ParseHeaderLinesPastBlank(ls, h) ==
    IF ls = <<>> THEN h
    ELSE IF ls[1] = <<>> \/ HasPrefix(ls[1], <<" ">>) \/ HasPrefix(ls[1], <<"\t">>)
         THEN ParseHeaderLinesPastBlank(Tail(ls), h)
    ELSE LET i == Index(ls[1], <<":", " ">>)
             k == ToLower(SubSeq(ls[1], 1, i - 1))
             v == SubSeq(ls[1], i + 2, Len(ls[1])) IN
         IF i = 0 THEN ParseHeaderLinesPastBlank(Tail(ls), h)
         ELSE ParseHeaderLinesPastBlank(Tail(ls),
                  [x \in DOMAIN h \cup {k} |-> IF x = k THEN v ELSE h[x]])

RECURSIVE ParseHeaderLines(_, _)
ParseHeaderLines(ls, h) ==
    IF ls = <<>> \/ ls[1] = <<>> THEN h
    ELSE IF HasPrefix(ls[1], <<" ">>) \/ HasPrefix(ls[1], <<"\t">>)
         THEN ParseHeaderLines(Tail(ls), h)
    ELSE LET i == Index(ls[1], <<":", " ">>)
             k == ToLower(SubSeq(ls[1], 1, i - 1))
             v == SubSeq(ls[1], i + 2, Len(ls[1])) IN
         IF i = 0 THEN ParseHeaderLines(Tail(ls), h)
         ELSE ParseHeaderLines(Tail(ls),
                  [x \in DOMAIN h \cup {k} |-> IF x = k THEN v ELSE h[x]])

ParseHeaders(raw) == ParseHeaderLines(Split(raw, CRLF), [x \in {} |-> <<>>])

\* h[key] of a Go map: the empty string for a missing key
MapGet(h, key) == IF key \in DOMAIN h THEN h[key] ELSE <<>>

\* the Message Top builds from the block readDot returned
TopMessage(id, bodyLines, ls) ==
    LET content == Join(ls, CRLF)
        h == ParseHeaders(content)
        parts == SplitN2(content, CRLF \o CRLF) IN
    [ID |-> id, Size |-> 0,
     From |-> MapGet(h, <<"f","r","o","m">>),
     Subject |-> MapGet(h, <<"s","u","b","j","e","c","t">>),
     Date |-> MapGet(h, <<"d","a","t","e">>),
     Body |-> IF bodyLines > 0 /\ Len(parts) = 2 THEN parts[2] ELSE <<>>]

---------------------------------------------------------------------------
(* The pure functions, applied to inputs drawn from bounded sets *)

MaxLineLen == 4
MaxReplyLines == 3
MaxBlockLines == 4

RECURSIVE SeqsUpTo(_, _)
SeqsUpTo(S, n) ==
    IF n = 0 THEN {<<>>}
    ELSE LET shorter == SeqsUpTo(S, n - 1) IN
         shorter \cup {Append(s, x) : s \in {t \in shorter : Len(t) = n - 1}, x \in S}

\* what ReadString returns for a line the server sent
Raw(content) == content \o CRLF
RawAll(contents) == [i \in 1..Len(contents) |-> Raw(contents[i])]

LineInputs == SeqsUpTo({".", "a"}, MaxLineLen)

ReplyContents ==
    { <<"2","5","0","-","f","e","a","t","u","r","e","1">>,
      <<"2","5","0","-","f","e","a","t","u","r","e","2">>,
      <<"2","5","0"," ","O","K">>,
      <<"5","5","0"," ","r","e","j","e","c","t","e","d">>,
      <<"4","5","0","-","w","a","i","t">>,
      <<"4","2","1"," ","b","y","e">>,
      <<"2","5">>,
      <<>>,
      <<"a","b","-","c">>,
      <<"5","5","4","-">> }

ListContents ==
    { <<"1"," ","1","0","0">>,
      <<"g","a","r","b","a","g","e">>,
      <<"2"," ","2","0","0">>,
      <<".">>,
      <<"f","o","o"," ","b","a","r">>,
      <<"3"," ","x">>,
      <<" ","4"," ","5">> }

\* lines of a block: stuffed and unstuffed ones, the terminator, and lines whose
\* text ends with a carriage return of its own
BlockContents ==
    { <<".">>, <<".", ".">>, <<".", ".", "a">>, <<".", "a">>, <<"a">>, <<>>,
      <<"a", CR>>, <<".", CR>> }

\* lines of a message: headers in different spellings, the blank line, a folded
\* line, a line that is no header, a body line
TopContents ==
    { <<"S","u","b","j","e","c","t",":"," ","x">>,
      <<"S","U","B","J","E","C","T",":"," ","y">>,
      <<"F","r","o","m",":"," ","f">>,
      <<"D","a","t","e",":"," ","d">>,
      <<>>,
      <<" ","S","u","b","j","e","c","t",":"," ","z">>,
      <<"g","a","r","b","a","g","e">>,
      <<"b">> }

\* the numbers of preview lines Top is asked for
PreviewLines == {0, 1, 2}

NoOut == [op |-> "none"]

NoMock == [on |-> FALSE]

FnIdle == fnOp = "none" /\ fnIn = <<>> /\ fnOut = NoOut

\* Send's stuffing of a line followed by readDot's unstuffing of the result
FnStuffUnstuff ==
    /\ fnOp = "line" /\ fnOut = NoOut
    /\ fnOut' = [op |-> "stuff-unstuff", mid |-> DotStuff(fnIn),
                 res |-> DotUnstuff(DotStuff(fnIn))]
    /\ UNCHANGED <<fnOp, fnIn, sessVars, vaultVars, regVars>>

\* readDot's unstuffing of a line followed by Send's stuffing of the result
FnUnstuffStuff ==
    /\ fnOp = "line" /\ fnOut = NoOut
    /\ fnOut' = [op |-> "unstuff-stuff", mid |-> DotUnstuff(fnIn),
                 res |-> DotStuff(DotUnstuff(fnIn))]
    /\ UNCHANGED <<fnOp, fnIn, sessVars, vaultVars, regVars>>

\* SMTPClient.readResponse on a reader holding the lines fnIn
FnReadResponse ==
    /\ fnOp = "reply" /\ fnOut = NoOut
    /\ LET r == SmtpReadResponse(fnIn) IN
       fnOut' = [op |-> "readResponse", resp |-> r.resp, err |-> r.err, n |-> r.n]
    /\ UNCHANGED <<fnOp, fnIn, sessVars, vaultVars, regVars>>

\* POP3Client.List after its LIST command was accepted, on a reader holding fnIn
FnList ==
    /\ fnOp = "list" /\ fnOut = NoOut
    /\ LET d == ReadDot(fnIn) IN
       fnOut' = [op |-> "List", err |-> d.err, n |-> d.n,
                 msgs |-> IF d.err # NoErr THEN <<>> ELSE ListEntries(d.lines)]
    /\ UNCHANGED <<fnOp, fnIn, sessVars, vaultVars, regVars>>

\* POP3Client.Retrieve after its RETR command was accepted, on a reader holding fnIn
FnRetrieve ==
    /\ fnOp = "block" /\ fnOut = NoOut
    /\ LET d == ReadDot(fnIn) IN
       fnOut' = [op |-> "Retrieve", err |-> d.err, n |-> d.n,
                 lines |-> d.lines,
                 text |-> IF d.err # NoErr THEN <<>> ELSE Join(d.lines, CRLF)]
    /\ UNCHANGED <<fnOp, fnIn, sessVars, vaultVars, regVars>>

\* POP3Client.Top after its TOP command was accepted, on a reader holding fnIn
FnTop ==
    /\ fnOp = "top" /\ fnOut = NoOut
    /\ \E bodyLines \in PreviewLines :
         LET d == ReadDot(fnIn) IN
         fnOut' = [op |-> "Top", err |-> d.err, bodyLines |-> bodyLines,
                   msg |-> IF d.err # NoErr THEN <<>> ELSE TopMessage(1, bodyLines, d.lines)]
    /\ UNCHANGED <<fnOp, fnIn, sessVars, vaultVars, regVars>>

---------------------------------------------------------------------------
(* Encodings *)

\* the byte value of a character of the model's alphabet
Ord(c) ==
    CASE c = "NUL" -> 0 [] c = LF -> 10 [] c = CR -> 13
      [] c = "a" -> 97 [] c = "b" -> 98 [] c = "o" -> 111 [] c = "q" -> 113
      [] c = "x" -> 120 [] c = "@" -> 64 [] c = ">" -> 62

B64Alphabet ==
    <<"A","B","C","D","E","F","G","H","I","J","K","L","M","N","O","P","Q","R","S","T",
      "U","V","W","X","Y","Z","a","b","c","d","e","f","g","h","i","j","k","l","m","n",
      "o","p","q","r","s","t","u","v","w","x","y","z","0","1","2","3","4","5","6","7",
      "8","9","+","/">>

\* base64.StdEncoding.EncodeToString
RECURSIVE Base64(_)
Base64(s) ==
    LET E(i) == B64Alphabet[i + 1] IN
    IF s = <<>> THEN <<>>
    ELSE IF Len(s) = 1
         THEN LET n == Ord(s[1]) * 65536 IN
              <<E(n \div 262144), E((n \div 4096) % 64), "=", "=">>
    ELSE IF Len(s) = 2
         THEN LET n == Ord(s[1]) * 65536 + Ord(s[2]) * 256 IN
              <<E(n \div 262144), E((n \div 4096) % 64), E((n \div 64) % 64), "=">>
    ELSE LET n == Ord(s[1]) * 65536 + Ord(s[2]) * 256 + Ord(s[3]) IN
         <<E(n \div 262144), E((n \div 4096) % 64), E((n \div 64) % 64), E(n % 64)>>
         \o Base64(SubSeq(s, 4, Len(s)))

---------------------------------------------------------------------------
(* The command lines of the two clients *)

SmtpEHLO == <<"E","H","L","O"," ","m","u","l","a","m","a","i","l">>
SmtpHELO == <<"H","E","L","O"," ","m","u","l","a","m","a","i","l">>
SmtpSTARTTLS == <<"S","T","A","R","T","T","L","S">>
SmtpAuthPlain(user, pass) ==
    <<"A","U","T","H"," ","P","L","A","I","N"," ">> \o Base64(<<"NUL">> \o user \o <<"NUL">> \o pass)
SmtpAuthLogin == <<"A","U","T","H"," ","L","O","G","I","N">>
SmtpMailFrom(from) == <<"M","A","I","L"," ","F","R","O","M",":","<">> \o from \o <<">">>
SmtpRcptTo(to) == <<"R","C","P","T"," ","T","O",":","<">> \o to \o <<">">>
SmtpDATA == <<"D","A","T","A">>
QUIT == <<"Q","U","I","T">>
Pop3USER(user) == <<"U","S","E","R"," ">> \o user
Pop3PASS(pass) == <<"P","A","S","S"," ">> \o pass
Pop3LIST == <<"L","I","S","T">>
Pop3TOP(id, n) == <<"T","O","P"," ">> \o Itoa(id) \o <<" ">> \o Itoa(n)
Pop3RETR(id) == <<"R","E","T","R"," ">> \o Itoa(id)

---------------------------------------------------------------------------
(* The server: what it may answer when the client reads *)

\* replies of an SMTP server; the empty stream is a connection that ends or fails
SmtpReplies ==
    { RawAll(<< <<"2","5","0"," ","O","K">> >>),
      RawAll(<< <<"2","5","0","-","f","e","a","t","u","r","e","1">>, <<"2","5","0"," ","O","K">> >>),
      RawAll(<< <<"2","2","0"," ","g","o">> >>),
      RawAll(<< <<"2","3","5"," ","o","k">> >>),
      RawAll(<< <<"3","5","4"," ","g","o">> >>),
      RawAll(<< <<"5","5","0"," ","r","e","j","e","c","t","e","d">> >>),
      <<>> }

\* status lines of a POP3 server
Pop3Statuses ==
    { RawAll(<< <<"+","O","K">> >>),
      RawAll(<< <<"+","O","K"," ","g","r","e","e","t","i","n","g">> >>),
      RawAll(<< <<"h","e","l","l","o">> >>),
      RawAll(<< <<"-","E","R","R"," ","n","o">> >>),
      <<>> }

\* blocks of a POP3 server; the last two end before the terminating "."
Pop3Blocks ==
    { RawAll(<< <<"1"," ","2","0","0">>, <<"2"," ","1","5","0">>, <<".">> >>),
      RawAll(<< <<"1"," ","1","0","0">>, <<"g","a","r","b","a","g","e">>, <<"2"," ","2","0","0">>, <<".">> >>),
      RawAll(<< <<"S","u","b","j","e","c","t",":"," ","x">>, <<>>, <<".",".","b">>, <<".">> >>),
      RawAll(<< <<".">> >>),
      RawAll(<< <<"1"," ","2","0","0">> >>),
      <<>> }

\* what the server answers at one point of a session: the scripted reply when
\* a scripted server is used and scripts this point, any reply otherwise
Scripted(point, replies) ==
    IF mock.on /\ point \in DOMAIN mock THEN {mock[point]} ELSE replies

\* a scripted server is reached over a connection that does not fail
DialOutcomes == IF mock.on THEN {TRUE} ELSE BOOLEAN

WriteOutcomes ==
    IF sock \notin {"open", "broken", "stalled"} THEN {FALSE}
    ELSE IF mock.on /\ sock = "open" THEN {TRUE}
    ELSE BOOLEAN

---------------------------------------------------------------------------
(* cmd: one command line written, one reply read *)

\* control after a step: the next position, and what an operation that returns
\* hands to the handler
Go(label) == [pc |-> label, opErr |-> opErr, status |-> status, idx |-> idx]
GoIdx(label, i) == [pc |-> label, opErr |-> opErr, status |-> status, idx |-> i]

\* what the client observed of a reply, as its code tests it; for a reply to DATA
\* that is no error the log also tells the intermediate status (3xx) from any
\* other, and for the reply to the password of AUTH LOGIN 235 from any other, which
\* the code does not
Outcome(op, r) ==
    IF r.err.kind = "io" THEN "io"
    ELSE IF r.err # NoErr THEN "rejected"
    ELSE IF op = "STARTTLS" /\ HasPrefix(r.resp, <<"2","2","0">>) THEN "220"
    ELSE IF op \in {"AUTH PLAIN", "LOGIN pass"} /\ HasPrefix(r.resp, <<"2","3","5">>) THEN "235"
    ELSE IF op = "DATA" /\ HasPrefix(r.resp, <<"3">>) THEN "3xx"
    ELSE "ok"

\* fmt.Fprintf(c.conn, "%s\r\n", command): the lines the bytes make on the wire
CommandLines(command) == WireLines(command \o CRLF)

\* what a failed read or write leaves of the transport
Failed(k) == IF k = "open" THEN "broken" ELSE k

\* what the reader can deliver: a transport whose read or write has failed, or that
\* was closed, delivers nothing more (the read returns an error); on a connection
\* the server keeps open without answering, the read does not return
Deliverable(replies) ==
    IF sock = "open" THEN replies
    ELSE IF sock = "stalled" THEN {}
    ELSE {<<>>}

\* what the caller of cmd does with the result, at the call site pc is at; the
\* call sites are defined with the operations below
RECURSIVE Continue(_)

\* the write of cmd; a write on a closed transport fails
CmdWrite(op, command) ==
    /\ ph = "w"
    /\ conn \in {"raw", "tls"}
    /\ \E wok \in WriteOutcomes :
         IF wok
         THEN /\ wire' = wire \o CommandLines(command)
              /\ outstanding' = outstanding + Len(CommandLines(command))
              /\ calls' = Append(calls, [op |-> op, n |-> Len(CommandLines(command)), out |-> "sent"])
              /\ ph' = "r"
              /\ UNCHANGED <<pc, sock, opErr, status, idx>>
         ELSE LET k == Continue([resp |-> <<>>, err |-> IoErr]) IN
              /\ calls' = Append(calls, [op |-> op, n |-> 0, out |-> "io"])
              /\ sock' = Failed(sock)
              /\ outstanding' = 0
              /\ pc' = k.pc /\ opErr' = k.opErr /\ status' = k.status /\ idx' = k.idx
              /\ UNCHANGED <<wire, ph>>

\* the read of cmd by SMTPClient.readResponse: from the reader's buffer when it
\* holds lines, else from the transport; what arrived with the reply and was
\* not consumed stays in the buffer
SmtpCmdRead(op) ==
    /\ ph = "r"
    /\ \E stream \in (IF reader # <<>> THEN {reader}
                       ELSE Deliverable(IF op = "STARTTLS" THEN Scripted("starttls", SmtpReplies)
                                        ELSE SmtpReplies)) :
         LET r == SmtpReadResponse(stream)
             k == Continue(r) IN
         /\ reader' = SubSeq(stream, r.n + 1, Len(stream))
         /\ calls' = [calls EXCEPT ![Len(calls)].out = Outcome(op, r)]
         /\ sock' = IF r.err.kind = "io" THEN Failed(sock) ELSE sock
         /\ outstanding' = IF r.err.kind = "io" THEN 0 ELSE outstanding - 1
         /\ ph' = "w"
         /\ pc' = k.pc /\ opErr' = k.opErr /\ status' = k.status /\ idx' = k.idx
         /\ UNCHANGED wire

\* SMTPClient.cmd
SmtpCmd(op, command) ==
    /\ \/ CmdWrite(op, command) /\ UNCHANGED reader
       \/ SmtpCmdRead(op)
    /\ UNCHANGED <<fnVars, vaultVars, regVars, handler, cfg, req, conn, mock, msgs, messages, body>>

---------------------------------------------------------------------------
(* POST /api/v1/mail/send: sendMail and the SMTP client *)

\* sendMail's test of what a client operation returned: an error is answered with
\* the operation's HTTP status and the handler returns (the deferred Close runs);
\* otherwise the next operation starts.  Send's success is answered 200.
SendMailRet(op, e) ==
    IF e # NoErr
    THEN [pc |-> "df_check", opErr |-> e, idx |-> idx,
          status |-> CASE op = "Connect" -> 503 [] op = "Handshake" -> 503
                       [] op = "Auth" -> 401 [] op = "Send" -> 500]
    ELSE [pc |-> CASE op = "Connect" -> "hs_ehlo" [] op = "Handshake" -> "au_plain"
                   [] op = "Auth" -> "sd_mail" [] op = "Send" -> "df_check",
          opErr |-> NoErr, idx |-> idx,
          status |-> IF op = "Send" THEN 200 ELSE status]

\* sendMail up to the construction of the client: the body is decoded, the account
\* loaded and the password decrypted; each can fail, and then nothing is dialed
SendMailLoad ==
    /\ handler = "sendMail" /\ pc = "start"
    /\ \E outcome \in {"ok", "badjson", "noaccount", "decrypt"} :
         /\ pc' = IF outcome = "ok" THEN "smtp_dial" ELSE "returned"
         /\ status' = CASE outcome = "ok" -> status [] outcome = "badjson" -> 400
                        [] outcome = "noaccount" -> 404 [] outcome = "decrypt" -> 500
    /\ UNCHANGED <<fnVars, vaultVars, regVars, reader, handler, ph, cfg, req, conn, sock, wire, calls, outstanding,
                   mock, msgs, messages, body, idx, opErr>>

\* SMTPClient.Connect: the dial.  A failed tls.Dial leaves a nil *tls.Conn in the
\* conn field, which is not a nil net.Conn.
SmtpConnectDial ==
    /\ pc = "smtp_dial"
    /\ \E ok \in DialOutcomes :
         IF ok
         THEN /\ conn' = IF cfg.UseSSL THEN "tls" ELSE "raw"
              /\ sock' = "open"
              /\ pc' = "smtp_greet"
              /\ UNCHANGED <<opErr, status>>
         ELSE LET k == SendMailRet("Connect", IoErr) IN
              /\ conn' = IF cfg.UseSSL THEN "nilptr" ELSE "nil"
              /\ pc' = k.pc /\ opErr' = k.opErr /\ status' = k.status
              /\ UNCHANGED sock
    /\ UNCHANGED <<fnVars, vaultVars, regVars, reader, handler, ph, cfg, req, wire, calls, outstanding,
                   mock, msgs, messages, body, idx>>

\* SMTPClient.Connect: the greeting; on an error the connection is closed
SmtpConnectGreeting ==
    /\ pc = "smtp_greet"
    /\ \E stream \in Deliverable(Scripted("smtpgreeting", SmtpReplies)) :
         LET r == SmtpReadResponse(stream)
             k == SendMailRet("Connect", r.err) IN
         /\ sock' = IF r.err # NoErr THEN "closed" ELSE sock
         /\ pc' = k.pc /\ opErr' = k.opErr /\ status' = k.status
    /\ UNCHANGED <<fnVars, vaultVars, regVars, reader, handler, ph, cfg, req, conn, wire, calls, outstanding,
                   mock, msgs, messages, body, idx>>

\* Handshake after EHLO or HELO was accepted: STARTTLS on a plaintext dial only
\* (variant: STARTTLS on every session)
AfterHelloAlways == Go("hs_starttls")
AfterHello == IF ~cfg.UseSSL THEN Go("hs_starttls") ELSE SendMailRet("Handshake", NoErr)

\* (variant: no HELO fallback)
AfterEHLONoFallback(r) == IF r.err # NoErr THEN SendMailRet("Handshake", r.err) ELSE AfterHello
AfterEHLO(r) == IF r.err # NoErr THEN Go("hs_helo") ELSE AfterHello

AfterHELO(r) == IF r.err # NoErr THEN SendMailRet("Handshake", r.err) ELSE AfterHello

\* Handshake after STARTTLS (variant: a reply other than 220 fails the handshake)
AfterSTARTTLSStrict(r) ==
    IF r.err = NoErr /\ HasPrefix(r.resp, <<"2","2","0">>) THEN Go("hs_tls")
    ELSE SendMailRet("Handshake", IF r.err # NoErr THEN r.err ELSE IoErr)
AfterSTARTTLS(r) ==
    IF r.err = NoErr /\ HasPrefix(r.resp, <<"2","2","0">>) THEN Go("hs_tls")
    ELSE SendMailRet("Handshake", NoErr)

\* (variant: a failed re-issued EHLO fails the handshake)
AfterReEHLOStrict(r) == SendMailRet("Handshake", r.err)
AfterReEHLO(r) == SendMailRet("Handshake", NoErr)

HandshakeEHLO == pc = "hs_ehlo" /\ SmtpCmd("EHLO", SmtpEHLO)

HandshakeHELO == pc = "hs_helo" /\ SmtpCmd("HELO", SmtpHELO)

HandshakeSTARTTLS == pc = "hs_starttls" /\ SmtpCmd("STARTTLS", SmtpSTARTTLS)

\* bufio.NewReader(tlsConn): the buffer of the reader that replaces one holding buf
\* (variant: the reader of the plaintext stream is kept)
NewReaderKept(buf) == buf
NewReader(buf) == <<>>

\* tls.Client(c.conn).Handshake(); on success conn and reader are the TLS stream
HandshakeTLS ==
    /\ pc = "hs_tls"
    /\ \E ok \in BOOLEAN :
         IF ok
         THEN /\ conn' = "tls" /\ pc' = "hs_reehlo"
              /\ reader' = NewReader(reader)
              /\ UNCHANGED <<opErr, status>>
         ELSE LET k == SendMailRet("Handshake", IoErr) IN
              /\ pc' = k.pc /\ opErr' = k.opErr /\ status' = k.status
              /\ UNCHANGED <<conn, reader>>
    /\ UNCHANGED <<fnVars, vaultVars, regVars, handler, ph, cfg, req, sock, wire, calls, outstanding,
                   mock, msgs, messages, body, idx>>

HandshakeReEHLO == pc = "hs_reehlo" /\ SmtpCmd("EHLO", SmtpEHLO)

\* Auth: AUTH PLAIN, and authLogin unless it was answered 235
\* (variant: no LOGIN fallback)
AfterAuthPlainNoFallback(r) ==
    IF r.err = NoErr /\ HasPrefix(r.resp, <<"2","3","5">>) THEN SendMailRet("Auth", NoErr)
    ELSE SendMailRet("Auth", IF r.err # NoErr THEN r.err ELSE IoErr)
AfterAuthPlain(r) ==
    IF r.err = NoErr /\ HasPrefix(r.resp, <<"2","3","5">>) THEN SendMailRet("Auth", NoErr)
    ELSE Go("au_login")

AfterAuthLoginInit(r) == IF r.err # NoErr THEN SendMailRet("Auth", r.err) ELSE Go("au_user")

AfterAuthLoginUser(r) == IF r.err # NoErr THEN SendMailRet("Auth", r.err) ELSE Go("au_pass")

AfterAuthLoginPass(r) == SendMailRet("Auth", r.err)

AuthPlain ==
    pc = "au_plain" /\ SmtpCmd("AUTH PLAIN", SmtpAuthPlain(cfg.User, cfg.Pass))

AuthLoginInit == pc = "au_login" /\ SmtpCmd("AUTH LOGIN", SmtpAuthLogin)

AuthLoginUser == pc = "au_user" /\ SmtpCmd("LOGIN user", Base64(cfg.User))

AuthLoginPass == pc = "au_pass" /\ SmtpCmd("LOGIN pass", Base64(cfg.Pass))

\* Send: the loop over req.To, entered at recipient i
RcptLoop(i) == IF i <= Len(req.To) THEN GoIdx("sd_rcpt", i) ELSE Go("sd_data")

\* (variant: a rejected MAIL FROM is ignored)
AfterMailFromContinue(r) == RcptLoop(1)
AfterMailFrom(r) == IF r.err # NoErr THEN SendMailRet("Send", r.err) ELSE RcptLoop(1)

\* (variant: a rejected recipient is skipped)
AfterRcptToContinue(r) == RcptLoop(idx + 1)
AfterRcptTo(r) == IF r.err # NoErr THEN SendMailRet("Send", r.err) ELSE RcptLoop(idx + 1)

AfterDATA(r) == IF r.err # NoErr THEN SendMailRet("Send", r.err) ELSE Go("sd_body")

SendMailFrom == pc = "sd_mail" /\ SmtpCmd("MAIL FROM", SmtpMailFrom(req.From))

SendRcptTo == pc = "sd_rcpt" /\ SmtpCmd("RCPT TO", SmtpRcptTo(req.To[idx]))

SendDATA == pc = "sd_data" /\ SmtpCmd("DATA", SmtpDATA)

\* time.Now().Format(time.RFC1123Z): some date text
Dates == { <<"W","e","d">> }

\* the message Send builds
Message(r, date) ==
    <<"F","r","o","m",":"," ">> \o r.From \o CRLF
    \o <<"T","o",":"," ">> \o Join(r.To, <<",", " ">>) \o CRLF
    \o <<"S","u","b","j","e","c","t",":"," ">> \o r.Subject \o CRLF
    \o <<"D","a","t","e",":"," ">> \o date \o CRLF
    \o <<"M","I","M","E","-","V","e","r","s","i","o","n",":"," ","1",".","0">> \o CRLF
    \o <<"C","o","n","t","e","n","t","-","T","y","p","e",":"," ","t","e","x","t","/",
         "p","l","a","i","n",";"," ","c","h","a","r","s","e","t","=","U","T","F","-","8">> \o CRLF
    \o CRLF
    \o r.Body \o CRLF

\* (variant: the lines are written as they are)
MessageLinesUnstuffed(r, date) ==
    LET parts == Split(Message(r, date), <<LF>>) IN
    [i \in 1..Len(parts) |-> TrimRight(parts[i], {CR})]

\* the lines Send writes for the message: split at "\n", "\r" trimmed, dot-stuffed
MessageLines(r, date) ==
    LET parts == Split(Message(r, date), <<LF>>) IN
    [i \in 1..Len(parts) |-> DotStuff(TrimRight(parts[i], {CR}))]

\* Send's write loop: each line is written with its own Fprintf; the first failed
\* write returns its error, with the lines before it on the wire
SendBody ==
    /\ pc = "sd_body"
    /\ \E date \in Dates :
         LET ml == MessageLines(req, date) IN
         \E n \in (IF sock \in {"open", "broken", "stalled"} THEN 0..Len(ml) ELSE {0}) :
            /\ wire' = wire \o SubSeq(ml, 1, n)
            /\ IF n = Len(ml)
               THEN pc' = "sd_term" /\ UNCHANGED <<sock, outstanding, opErr, status>>
               ELSE LET k == SendMailRet("Send", IoErr) IN
                    /\ sock' = Failed(sock) /\ outstanding' = 0
                    /\ pc' = k.pc /\ opErr' = k.opErr /\ status' = k.status
    /\ UNCHANGED <<fnVars, vaultVars, regVars, reader, handler, ph, cfg, req, conn, calls, mock, msgs, messages, body, idx>>

\* Send's terminating ".": the server answers the whole data block once
SendTerminator ==
    /\ pc = "sd_term"
    /\ \E wok \in WriteOutcomes :
         IF wok
         THEN /\ wire' = wire \o << <<".">> >>
              /\ outstanding' = outstanding + 1
              /\ pc' = "sd_end"
              /\ UNCHANGED <<sock, opErr, status>>
         ELSE LET k == SendMailRet("Send", IoErr) IN
              /\ sock' = Failed(sock) /\ outstanding' = 0
              /\ pc' = k.pc /\ opErr' = k.opErr /\ status' = k.status
              /\ UNCHANGED wire
    /\ UNCHANGED <<fnVars, vaultVars, regVars, reader, handler, ph, cfg, req, conn, calls, mock, msgs, messages, body, idx>>

\* Send's final readResponse
SendDataEnd ==
    /\ pc = "sd_end"
    /\ \E stream \in Deliverable(SmtpReplies) :
         LET r == SmtpReadResponse(stream)
             k == SendMailRet("Send", r.err) IN
         /\ sock' = IF r.err.kind = "io" THEN Failed(sock) ELSE sock
         /\ outstanding' = IF r.err.kind = "io" THEN 0 ELSE outstanding - 1
         /\ pc' = k.pc /\ opErr' = k.opErr /\ status' = k.status
    /\ UNCHANGED <<fnVars, vaultVars, regVars, reader, handler, ph, cfg, req, conn, wire, calls, mock, msgs, messages, body, idx>>

\* SMTPClient.Close, deferred by sendMail: nothing on a nil conn; else QUIT, its
\* result ignored, and the close of the transport.  On the nil *tls.Conn a failed
\* tls.Dial left, the write of QUIT dereferences nil and panics.
\* (variant: a failed QUIT is returned and the transport left as it is)
AfterQuitStrict(r) ==
    IF r.err # NoErr THEN [pc |-> "returned", opErr |-> r.err, status |-> status, idx |-> idx]
    ELSE Go("df_close")
AfterQuit(r) == Go("df_close")

SmtpCloseCheck ==
    /\ pc = "df_check"
    /\ pc' = IF conn = "nil" THEN "returned" ELSE "df_quit"
    /\ UNCHANGED <<fnVars, vaultVars, regVars, reader, handler, ph, cfg, req, conn, sock, wire, calls, outstanding,
                   mock, msgs, messages, body, idx, opErr, status>>

SmtpCloseQuit ==
    /\ pc = "df_quit"
    /\ IF conn = "nilptr"
       THEN /\ pc' = "panicked"
            /\ UNCHANGED <<fnVars, vaultVars, regVars, reader, handler, ph, cfg, req, conn, sock, wire, calls,
                           outstanding, mock, msgs, messages, body, idx, opErr, status>>
       ELSE SmtpCmd("QUIT", QUIT)

SmtpCloseConn ==
    /\ pc = "df_close"
    /\ sock' = "closed"
    /\ pc' = "returned"
    /\ UNCHANGED <<fnVars, vaultVars, regVars, reader, handler, ph, cfg, req, conn, wire, calls, outstanding,
                   mock, msgs, messages, body, idx, opErr, status>>

---------------------------------------------------------------------------
(* GET /api/v1/mail/inbox and /api/v1/mail/message: connectPOP3, fetchInbox,   *)
(* fetchMessage and the POP3 client                                            *)

\* the read of cmd by POP3Client.readResponse.  The reply to LIST, TOP and RETR
\* goes on after an accepted status line (multi): it ends with the block.
Pop3CmdRead(op, replies, multi) ==
    /\ ph = "r"
    /\ \E stream \in Deliverable(replies) :
         LET r == Pop3ReadResponse(stream)
             k == Continue(r) IN
         /\ calls' = [calls EXCEPT ![Len(calls)].out = Outcome(op, r)]
         /\ sock' = IF r.err.kind = "io" THEN Failed(sock) ELSE sock
         /\ outstanding' = IF r.err.kind = "io" THEN 0
                           ELSE IF multi /\ r.err = NoErr THEN outstanding
                           ELSE outstanding - 1
         /\ ph' = "w"
         /\ pc' = k.pc /\ opErr' = k.opErr /\ status' = k.status /\ idx' = k.idx
         /\ UNCHANGED wire

\* POP3Client.cmd
Pop3Cmd(op, command, replies, multi) ==
    /\ (CmdWrite(op, command) \/ Pop3CmdRead(op, replies, multi))
    /\ UNCHANGED <<fnVars, vaultVars, regVars, reader, handler, cfg, req, conn, mock, msgs, messages, body>>

\* an error that is not the transport's nor the server's: no such account, a
\* password that does not decrypt
LoadErr == [kind |-> "load", text |-> <<>>]

\* connectPOP3 returned an error: the handler answers 503 and returns
ConnectPOP3Failed(e) == [pc |-> "returned", opErr |-> e, status |-> 503, idx |-> idx]

\* a later error of the handler: answered with code, then the deferred Close
HandlerFailed(code, e) == [pc |-> "pdf_check", opErr |-> e, status |-> code, idx |-> idx]

\* connectPOP3 up to the construction of the client
Pop3Load ==
    /\ handler \in {"fetchInbox", "fetchMessage"} /\ pc = "start"
    /\ \E outcome \in {"ok", "noaccount", "decrypt"} :
         IF outcome = "ok"
         THEN pc' = "pop_dial" /\ UNCHANGED <<opErr, status>>
         ELSE LET k == ConnectPOP3Failed(LoadErr) IN
              pc' = k.pc /\ opErr' = k.opErr /\ status' = k.status
    /\ UNCHANGED <<fnVars, vaultVars, regVars, reader, handler, ph, cfg, req, conn, sock, wire, calls, outstanding,
                   mock, msgs, messages, body, idx>>

\* POP3Client.Connect: the dial
Pop3ConnectDial ==
    /\ pc = "pop_dial"
    /\ \E ok \in DialOutcomes :
         IF ok
         THEN /\ conn' = IF cfg.UseSSL THEN "tls" ELSE "raw"
              /\ sock' = "open"
              /\ pc' = "pop_greet"
              /\ UNCHANGED <<opErr, status>>
         ELSE LET k == ConnectPOP3Failed(IoErr) IN
              /\ conn' = IF cfg.UseSSL THEN "nilptr" ELSE "nil"
              /\ pc' = k.pc /\ opErr' = k.opErr /\ status' = k.status
              /\ UNCHANGED sock
    /\ UNCHANGED <<fnVars, vaultVars, regVars, reader, handler, ph, cfg, req, wire, calls, outstanding,
                   mock, msgs, messages, body, idx>>

\* POP3Client.Connect: the greeting; on an error the connection is closed
Pop3ConnectGreeting ==
    /\ pc = "pop_greet"
    /\ \E stream \in Deliverable(Scripted("greeting", Pop3Statuses)) :
         LET r == Pop3ReadResponse(stream)
             k == IF r.err # NoErr THEN ConnectPOP3Failed(r.err) ELSE Go("pop_user") IN
         /\ sock' = IF r.err # NoErr THEN "closed" ELSE sock
         /\ pc' = k.pc /\ opErr' = k.opErr /\ status' = k.status
    /\ UNCHANGED <<fnVars, vaultVars, regVars, reader, handler, ph, cfg, req, conn, wire, calls, outstanding,
                   mock, msgs, messages, body, idx>>

\* connectPOP3 after a failed Auth: client.Close(), then the error is returned
\* (variant: the error is returned without Close)
AuthFailedNoClose(e) == ConnectPOP3Failed(e)
AuthFailed(e) == [pc |-> "cp_check", opErr |-> e, status |-> status, idx |-> idx]

\* fetchMessage after connectPOP3: the id of the query must be a number
FetchMessageID ==
    IF Atoi(req.ID).ok THEN Go("fm_retr")
    ELSE [pc |-> "pdf_check", opErr |-> opErr, status |-> 400, idx |-> idx]

\* connectPOP3 returned the client: the handler defers Close and goes on
Connected == IF handler = "fetchInbox" THEN Go("fi_list") ELSE FetchMessageID

\* (variant: PASS is sent whatever USER returned)
AfterUSERContinue(r) == Go("pop_pass")
AfterUSER(r) == IF r.err # NoErr THEN AuthFailed(r.err) ELSE Go("pop_pass")

AfterPASS(r) == IF r.err # NoErr THEN AuthFailed(r.err) ELSE Connected

Pop3AuthUSER ==
    pc = "pop_user" /\ Pop3Cmd("USER", Pop3USER(cfg.User), Scripted("user", Pop3Statuses), FALSE)

Pop3AuthPASS ==
    pc = "pop_pass" /\ Pop3Cmd("PASS", Pop3PASS(cfg.Pass), Scripted("pass", Pop3Statuses), FALSE)

\* POP3Client.Close, in three steps at the positions check, quit, close; done is
\* where the caller goes on and the status it has answered by then
Pop3CloseCheck(check, quit, done) ==
    /\ pc = check
    /\ IF conn = "nil"
       THEN pc' = done.pc /\ status' = done.status
       ELSE pc' = quit /\ UNCHANGED status
    /\ UNCHANGED <<fnVars, vaultVars, regVars, reader, handler, ph, cfg, req, conn, sock, wire, calls, outstanding,
                   mock, msgs, messages, body, idx, opErr>>

Pop3CloseQuit(quit) ==
    /\ pc = quit
    /\ IF conn = "nilptr"
       THEN /\ pc' = "panicked"
            /\ UNCHANGED <<fnVars, vaultVars, regVars, reader, handler, ph, cfg, req, conn, sock, wire, calls,
                           outstanding, mock, msgs, messages, body, idx, opErr, status>>
       ELSE Pop3Cmd("QUIT", QUIT, Pop3Statuses, FALSE)

Pop3CloseConn(close, done) ==
    /\ pc = close
    /\ sock' = "closed"
    /\ pc' = done.pc /\ status' = done.status
    /\ UNCHANGED <<fnVars, vaultVars, regVars, reader, handler, ph, cfg, req, conn, wire, calls, outstanding,
                   mock, msgs, messages, body, idx, opErr>>

\* client.Close() of connectPOP3, after which the handler answers 503
ConnectPOP3Close ==
    LET done == [pc |-> "returned", status |-> 503] IN
    \/ Pop3CloseCheck("cp_check", "cp_quit", done)
    \/ Pop3CloseQuit("cp_quit")
    \/ Pop3CloseConn("cp_close", done)

\* the Close fetchInbox and fetchMessage defer
Pop3DeferredClose ==
    LET done == [pc |-> "returned", status |-> status] IN
    \/ Pop3CloseCheck("pdf_check", "pdf_quit", done)
    \/ Pop3CloseQuit("pdf_quit")
    \/ Pop3CloseConn("pdf_close", done)

\* fetchInbox's limit: the positive integer of the query, 20 otherwise
Limit(q) ==
    LET a == Atoi(q.Limit) IN
    IF q.Limit # <<>> /\ a.ok /\ a.val > 0 THEN a.val ELSE 20

\* fetchInbox's start: the entries after position Start(list) are the recent ones
\* (variant: the whole list is taken)
StartWhole(list) == 0
Start(list) ==
    LET st == Len(list) - Limit(req) IN IF st < 0 THEN 0 ELSE st

\* fetchInbox's loop over recent, from the last entry down, at entry i of the list
TopLoop(list, i) == IF i > Start(list) THEN GoIdx("fi_top", i) ELSE Go("fi_respond")

AfterLIST(r) == IF r.err # NoErr THEN HandlerFailed(500, r.err) ELSE Go("fi_dot")

AfterTOP(r) == IF r.err # NoErr THEN TopLoop(msgs, idx - 1) ELSE Go("fi_topdot")

AfterRETR(r) == IF r.err # NoErr THEN HandlerFailed(500, r.err) ELSE Go("fm_dot")

\* Close ignores what QUIT returned and goes on to close the transport
AfterPop3Quit(r) == Go(IF pc = "cp_quit" THEN "cp_close" ELSE "pdf_close")

Continue(r) ==
    CASE pc = "hs_ehlo" -> AfterEHLO(r)
      [] pc = "hs_helo" -> AfterHELO(r)
      [] pc = "hs_starttls" -> AfterSTARTTLS(r)
      [] pc = "hs_reehlo" -> AfterReEHLO(r)
      [] pc = "au_plain" -> AfterAuthPlain(r)
      [] pc = "au_login" -> AfterAuthLoginInit(r)
      [] pc = "au_user" -> AfterAuthLoginUser(r)
      [] pc = "au_pass" -> AfterAuthLoginPass(r)
      [] pc = "sd_mail" -> AfterMailFrom(r)
      [] pc = "sd_rcpt" -> AfterRcptTo(r)
      [] pc = "sd_data" -> AfterDATA(r)
      [] pc = "df_quit" -> AfterQuit(r)
      [] pc = "pop_user" -> AfterUSER(r)
      [] pc = "pop_pass" -> AfterPASS(r)
      [] pc \in {"cp_quit", "pdf_quit"} -> AfterPop3Quit(r)
      [] pc = "fi_list" -> AfterLIST(r)
      [] pc = "fi_top" -> AfterTOP(r)
      [] pc = "fm_retr" -> AfterRETR(r)

\* List: the LIST command
FetchInboxLIST ==
    pc = "fi_list" /\ Pop3Cmd("LIST", Pop3LIST, Scripted("list", Pop3Statuses), TRUE)

\* List: readDot and the entries; then fetchInbox picks the recent ones
FetchInboxListBlock ==
    /\ pc = "fi_dot"
    /\ \E stream \in Deliverable(Scripted("listblock", Pop3Blocks)) :
         LET d == ReadDot(stream)
             list == ListEntries(d.lines)
             k == IF d.err # NoErr THEN HandlerFailed(500, d.err)
                  ELSE TopLoop(list, Len(list)) IN
         /\ msgs' = IF d.err # NoErr THEN msgs ELSE list
         /\ sock' = IF d.err # NoErr THEN Failed(sock) ELSE sock
         /\ outstanding' = IF d.err # NoErr THEN 0 ELSE outstanding - 1
         /\ pc' = k.pc /\ opErr' = k.opErr /\ status' = k.status /\ idx' = k.idx
    /\ UNCHANGED <<fnVars, vaultVars, regVars, reader, handler, ph, cfg, req, conn, wire, calls, mock, messages, body>>

\* Top: the TOP command for entry idx; a failure skips the entry
FetchInboxTOP ==
    pc = "fi_top" /\ Pop3Cmd("TOP", Pop3TOP(msgs[idx].ID, 0), Pop3Statuses, TRUE)

\* Top: readDot and the headers; the message gets the size LIST gave
FetchInboxTopBlock ==
    /\ pc = "fi_topdot"
    /\ \E stream \in Deliverable(Pop3Blocks) :
         LET d == ReadDot(stream)
             k == TopLoop(msgs, idx - 1) IN
         /\ messages' = IF d.err # NoErr THEN messages
                        ELSE Append(messages,
                                 [TopMessage(msgs[idx].ID, 0, d.lines) EXCEPT !.Size = msgs[idx].Size])
         /\ sock' = IF d.err # NoErr THEN Failed(sock) ELSE sock
         /\ outstanding' = IF d.err # NoErr THEN 0 ELSE outstanding - 1
         /\ pc' = k.pc /\ opErr' = k.opErr /\ status' = k.status /\ idx' = k.idx
    /\ UNCHANGED <<fnVars, vaultVars, regVars, reader, handler, ph, cfg, req, conn, wire, calls, mock, msgs, body>>

\* fetchInbox's answer
FetchInboxRespond ==
    /\ pc = "fi_respond"
    /\ status' = 200
    /\ body' = [total |-> Len(msgs), messages |-> messages]
    /\ pc' = "pdf_check"
    /\ UNCHANGED <<fnVars, vaultVars, regVars, reader, handler, ph, cfg, req, conn, sock, wire, calls, outstanding,
                   mock, msgs, messages, idx, opErr>>

\* Retrieve: the RETR command
FetchMessageRETR ==
    pc = "fm_retr" /\ Pop3Cmd("RETR", Pop3RETR(Atoi(req.ID).val), Pop3Statuses, TRUE)

\* Retrieve: readDot and the joined text; then fetchMessage's answer
FetchMessageBlock ==
    /\ pc = "fm_dot"
    /\ \E stream \in Deliverable(Pop3Blocks) :
         LET d == ReadDot(stream)
             k == IF d.err # NoErr THEN HandlerFailed(500, d.err)
                  ELSE [pc |-> "pdf_check", opErr |-> NoErr, status |-> 200, idx |-> idx] IN
         /\ body' = IF d.err # NoErr THEN body ELSE [raw |-> Join(d.lines, CRLF)]
         /\ sock' = IF d.err # NoErr THEN Failed(sock) ELSE sock
         /\ outstanding' = IF d.err # NoErr THEN 0 ELSE outstanding - 1
         /\ pc' = k.pc /\ opErr' = k.opErr /\ status' = k.status
    /\ UNCHANGED <<fnVars, vaultVars, regVars, reader, handler, ph, cfg, req, conn, wire, calls, mock, msgs, messages, idx>>

---------------------------------------------------------------------------
(* The requests and accounts of the model *)

MaxRcpt == 2

Injected(s) == s \o <<CR, LF, "q">>

SmtpCfgs == [User : {<<"b","o","b">>}, Pass : {<<"x">>}, UseSSL : BOOLEAN]

SendRequests ==
    [From : {<<"a">>, Injected(<<"a">>)},
     To : SeqsUpTo({<<"b">>, Injected(<<"b">>)}, MaxRcpt),
     Subject : {<<"s">>},
     Body : {<<"h","i">>, <<".", CR, LF, ".", "a">>}]

SessIdle ==
    /\ handler = "none" /\ pc = "idle" /\ ph = "w" /\ cfg = <<>> /\ req = <<>>
    /\ conn = "nil" /\ reader = <<>> /\ sock = "none" /\ wire = <<>> /\ calls = <<>> /\ outstanding = 0
    /\ mock = NoMock /\ msgs = <<>> /\ messages = <<>> /\ body = <<>> /\ idx = 0
    /\ opErr = NoErr /\ status = 0

SessStart ==
    /\ pc = "start" /\ ph = "w"
    /\ conn = "nil" /\ reader = <<>> /\ sock = "none" /\ wire = <<>> /\ calls = <<>> /\ outstanding = 0
    /\ msgs = <<>> /\ messages = <<>> /\ body = <<>> /\ idx = 0
    /\ opErr = NoErr /\ status = 0

Pop3Cfgs == [User : {<<"b","o","b">>, Injected(<<"b","o","b">>)}, Pass : {<<"x">>}, UseSSL : BOOLEAN]

InboxRequests == [Limit : {<<>>, <<"1">>}]

MessageRequests == [ID : {<<"1">>, <<"x">>}]

Init ==
    /\ FnIdle
    /\ SessStart
    /\ VaultIdle /\ RegIdle
    /\ mock = NoMock
    /\ \/ handler = "sendMail" /\ cfg \in SmtpCfgs /\ req \in SendRequests
       \/ handler = "fetchInbox" /\ cfg \in Pop3Cfgs /\ req \in InboxRequests
       \/ handler = "fetchMessage" /\ cfg \in Pop3Cfgs /\ req \in MessageRequests

Next ==
    \/ SendMailLoad \/ SmtpConnectDial \/ SmtpConnectGreeting
    \/ HandshakeEHLO \/ HandshakeHELO \/ HandshakeSTARTTLS \/ HandshakeTLS \/ HandshakeReEHLO
    \/ AuthPlain \/ AuthLoginInit \/ AuthLoginUser \/ AuthLoginPass
    \/ SendMailFrom \/ SendRcptTo \/ SendDATA \/ SendBody \/ SendTerminator \/ SendDataEnd
    \/ SmtpCloseCheck \/ SmtpCloseQuit \/ SmtpCloseConn
    \/ Pop3Load \/ Pop3ConnectDial \/ Pop3ConnectGreeting \/ Pop3AuthUSER \/ Pop3AuthPASS
    \/ ConnectPOP3Close
    \/ FetchInboxLIST \/ FetchInboxListBlock \/ FetchInboxTOP \/ FetchInboxTopBlock
    \/ FetchInboxRespond
    \/ FetchMessageRETR \/ FetchMessageBlock
    \/ Pop3DeferredClose

Spec == Init /\ [][Next]_vars

InitFn ==
    /\ SessIdle
    /\ VaultIdle /\ RegIdle
    /\ fnOut = NoOut
    /\ \/ fnOp = "line" /\ fnIn \in LineInputs
       \/ fnOp = "reply" /\ fnIn \in {RawAll(c) : c \in SeqsUpTo(ReplyContents, MaxReplyLines)}
       \/ fnOp = "list" /\ fnIn \in {RawAll(c) : c \in SeqsUpTo(ListContents, MaxBlockLines)}
       \/ fnOp = "block" /\ fnIn \in {RawAll(c) : c \in SeqsUpTo(BlockContents, MaxBlockLines)}
       \/ fnOp = "top" /\ fnIn \in {RawAll(c \o << <<".">> >>) : c \in SeqsUpTo(TopContents, MaxBlockLines - 1)}

NextFn == FnStuffUnstuff \/ FnUnstuffStuff \/ FnReadResponse \/ FnList \/ FnRetrieve \/ FnTop

SpecFn == InitFn /\ [][NextFn]_vars

\* The end-to-end test: fetchInbox for bob against a scripted POP3 server that is
\* reached over a connection that does not fail
MaxMockLines == 2

MockStatuses ==
    { RawAll(<< <<"+","O","K">> >>), RawAll(<< <<"-","E","R","R"," ","n","o">> >>) }

MockListContents ==
    { <<"1"," ","2","0","0">>, <<"2"," ","1","5","0">>, <<"g","a","r","b","a","g","e">> }

Mocks ==
    [on : {TRUE},
     greeting : { RawAll(<< <<"+","O","K"," ","g","r","e","e","t","i","n","g">> >>),
                  RawAll(<< <<"-","E","R","R"," ","n","o">> >>),
                  RawAll(<< <<"h","e","l","l","o">> >>),
                  RawAll(<< <<>> >>) },
     user : MockStatuses,
     pass : MockStatuses,
     list : MockStatuses \cup { RawAll(<< <<"1"," ","2","0","0">> >>) },
     listblock : {RawAll(c \o << <<".">> >>) : c \in SeqsUpTo(MockListContents, MaxMockLines)}]

InitMock ==
    /\ FnIdle
    /\ SessStart
    /\ VaultIdle /\ RegIdle
    /\ mock \in Mocks
    /\ handler = "fetchInbox"
    /\ cfg \in [User : {<<"b","o","b">>}, Pass : {<<"x">>}, UseSSL : {FALSE}]
    /\ req \in [Limit : {<<>>}]

NextMock ==
    \/ Pop3Load \/ Pop3ConnectDial \/ Pop3ConnectGreeting \/ Pop3AuthUSER \/ Pop3AuthPASS
    \/ ConnectPOP3Close
    \/ FetchInboxLIST \/ FetchInboxListBlock \/ FetchInboxTOP \/ FetchInboxTopBlock
    \/ FetchInboxRespond
    \/ Pop3DeferredClose

SpecMock == InitMock /\ [][NextMock]_vars

\* sendMail against an SMTP server whose greeting is scripted, reached over a
\* connection that does not fail
SmtpGreetings ==
    { RawAll(<< <<"2","2","0"," ","r","e","a","d","y">> >>),
      RawAll(<< <<"2","2","0","-","a">>, <<"2","2","0"," ","r","e","a","d","y">> >>),
      RawAll(<< <<"1","2","0"," ","w","a","i","t">> >>),
      RawAll(<< <<"3","5","4"," ","g","o">> >>),
      RawAll(<< <<"h","e","l","l","o">> >>),
      RawAll(<< <<>> >>),
      RawAll(<< <<"4","2","1"," ","b","y","e">> >>),
      RawAll(<< <<"5","5","4"," ","n","o">> >>) }

InitSmtpMock ==
    /\ FnIdle
    /\ SessStart
    /\ VaultIdle /\ RegIdle
    /\ mock \in [on : {TRUE}, smtpgreeting : SmtpGreetings]
    /\ handler = "sendMail"
    /\ cfg \in [User : {<<"b","o","b">>}, Pass : {<<"x">>}, UseSSL : {FALSE}]
    /\ req \in [From : {<<"a">>}, To : {<< <<"b">> >>}, Subject : {<<"s">>}, Body : {<<"h","i">>}]

NextSmtpMock ==
    \/ SendMailLoad \/ SmtpConnectDial \/ SmtpConnectGreeting
    \/ HandshakeEHLO \/ HandshakeHELO \/ HandshakeSTARTTLS \/ HandshakeTLS \/ HandshakeReEHLO
    \/ AuthPlain \/ AuthLoginInit \/ AuthLoginUser \/ AuthLoginPass
    \/ SendMailFrom \/ SendRcptTo \/ SendDATA \/ SendBody \/ SendTerminator \/ SendDataEnd
    \/ SmtpCloseCheck \/ SmtpCloseQuit \/ SmtpCloseConn

SpecSmtpMock == InitSmtpMock /\ [][NextSmtpMock]_vars

\* sendMail against a server whose answer to STARTTLS is scripted: the 220 line,
\* alone or with more plaintext lines sent right behind it
StartTlsReplies ==
    { RawAll(<< <<"2","2","0"," ","g","o">> >>),
      RawAll(<< <<"2","2","0"," ","g","o">>, <<"2","5","0"," ","O","K">> >>),
      RawAll(<< <<"2","2","0"," ","g","o">>, <<"5","3","5"," ","n","o">> >>),
      RawAll(<< <<"2","2","0"," ","g","o">>, <<"2","3","5"," ","o","k">>, <<"2","5","0"," ","O","K">> >>) }

InitUpgrade ==
    /\ FnIdle
    /\ SessStart
    /\ VaultIdle /\ RegIdle
    /\ mock \in [on : {TRUE}, starttls : StartTlsReplies]
    /\ handler = "sendMail"
    /\ cfg \in [User : {<<"b","o","b">>}, Pass : {<<"x">>}, UseSSL : {FALSE}]
    /\ req \in [From : {<<"a">>}, To : {<< <<"b">> >>}, Subject : {<<"s">>}, Body : {<<"h","i">>}]

SpecUpgrade == InitUpgrade /\ [][NextSmtpMock]_vars

\* fetchInbox against a server that accepts the login and lists its messages, with
\* the limits a query can carry; each TOP is answered in any way
MaxListed == 3

ListedLine(i) == Itoa(i) \o <<" ">> \o Itoa(100 * i)

Listings == { RawAll([i \in 1..n |-> ListedLine(i)] \o << <<".">> >>) : n \in 0..MaxListed }

InboxLimits == { <<>>, <<"1">>, <<"2">>, <<"0">>, <<"-","1">>, <<"x">> }

InitInbox ==
    /\ FnIdle
    /\ SessStart
    /\ VaultIdle /\ RegIdle
    /\ mock \in [on : {TRUE},
                 greeting : { RawAll(<< <<"+","O","K"," ","g","r","e","e","t","i","n","g">> >>) },
                 user : { RawAll(<< <<"+","O","K">> >>) },
                 pass : MockStatuses,
                 list : { RawAll(<< <<"+","O","K">> >>) },
                 listblock : Listings]
    /\ handler = "fetchInbox"
    /\ cfg \in [User : {<<"b","o","b">>}, Pass : {<<"x">>}, UseSSL : {FALSE}]
    /\ req \in [Limit : InboxLimits]

SpecInbox == InitInbox /\ [][NextMock]_vars

\* A server that goes silent at termination: it keeps the connection open, takes
\* what is written and sends nothing more
ServerStalls ==
    /\ sock = "open" /\ pc \in {"df_quit", "cp_quit", "pdf_quit"}
    /\ sock' = "stalled"
    /\ UNCHANGED <<fnVars, vaultVars, regVars, reader, handler, pc, ph, cfg, req, conn, wire, calls, outstanding,
                   mock, msgs, messages, body, idx, opErr, status>>

InitHang ==
    /\ Init
    /\ cfg.User = <<"b","o","b">>
    /\ handler = "sendMail" => req.From = <<"a">> /\ req.To = << <<"b">> >> /\ req.Body = <<"h","i">>
    /\ handler = "fetchInbox" => req.Limit = <<"1">>

NextHang == Next \/ ServerStalls

\* the steps of Close, of either client
CloseStep ==
    \/ SmtpCloseCheck \/ SmtpCloseQuit \/ SmtpCloseConn
    \/ ConnectPOP3Close \/ Pop3DeferredClose

\* the handler's goroutine keeps running: a step of Close that can be taken is
\* taken; nothing obliges the server to answer
SpecHang == InitHang /\ [][NextHang]_vars /\ WF_vars(CloseStep)

---------------------------------------------------------------------------
(* Paths: package path/filepath on a system whose separator is "/" *)

Slash == "/"

Rooted(p) == p # <<>> /\ p[1] = Slash

\* the elements filepath.Clean keeps, in order: "" and "." are dropped, ".." takes
\* the element before it away, stays when there is none and the path is not
\* rooted, and is dropped at the root
RECURSIVE CleanElems(_, _, _)
CleanElems(elems, rooted, acc) ==
    IF elems = <<>> THEN acc
    ELSE LET e == elems[1] IN
         IF e = <<>> \/ e = <<".">> THEN CleanElems(Tail(elems), rooted, acc)
         ELSE IF e = <<".", ".">>
              THEN IF acc # <<>> /\ acc[Len(acc)] # <<".", ".">>
                   THEN CleanElems(Tail(elems), rooted, SubSeq(acc, 1, Len(acc) - 1))
                   ELSE IF rooted THEN CleanElems(Tail(elems), rooted, acc)
                   ELSE CleanElems(Tail(elems), rooted, Append(acc, e))
              ELSE CleanElems(Tail(elems), rooted, Append(acc, e))

\* filepath.Clean
Clean(p) ==
    LET elems == CleanElems(Split(p, <<Slash>>), Rooted(p), <<>>) IN
    IF Rooted(p) THEN <<Slash>> \o Join(elems, <<Slash>>)
    ELSE IF elems = <<>> THEN <<".">>
    ELSE Join(elems, <<Slash>>)

\* filepath.Join(a, b): empty elements are ignored, the result is cleaned
FilepathJoin(a, b) ==
    IF a = <<>> /\ b = <<>> THEN <<>>
    ELSE IF a = <<>> THEN Clean(b)
    ELSE IF b = <<>> THEN Clean(a)
    ELSE Clean(a \o <<Slash>> \o b)

\* the position of the last "/" of p, 0 when it has none
RECURSIVE LastSlash(_, _)
LastSlash(p, i) == IF i = 0 THEN 0 ELSE IF p[i] = Slash THEN i ELSE LastSlash(p, i - 1)

\* filepath.Dir: all but the last element of p, cleaned
Dir(p) == Clean(SubSeq(p, 1, LastSlash(p, Len(p))))

\* strings.Contains
Contains(s, substr) == Index(s, substr) > 0

---------------------------------------------------------------------------
(* The file system, as package os shows it to a process whose working      *)
(* directory is Cwd.  There are no symbolic links.                         *)

Cwd == <<Slash, "w">>

\* the absolute path the system resolves name to
Abs(name) == IF Rooted(name) THEN Clean(name) ELSE Clean(Cwd \o <<Slash>> \o name)

Root == <<Slash>>

\* the directories above the absolute path a
RECURSIVE Above(_)
Above(a) == IF a = Root THEN {} ELSE {Dir(a)} \cup Above(Dir(a))

\* absolute path a lies in the directory d or below it
Below(a, d) == d \in Above(a)

IsFile(f, a) == a \in DOMAIN f.files

IsDir(f, a) == a \in f.dirs

\* some directory name on the way to a is a file
ThroughFile(f, a) == \E x \in Above(a) : IsFile(f, x)

HasEntries(f, d) == \E x \in (DOMAIN f.files) \cup f.dirs : x # Root /\ Dir(x) = d

\* os.MkdirAll: the directory and every missing one above it; fails on a file in
\* the way
MkdirAll(f, name) ==
    LET a == Abs(name)
        chain == {a} \cup Above(a) IN
    IF \E x \in chain : IsFile(f, x) THEN [fs |-> f, err |-> "ENOTDIR", made |-> {}]
    ELSE [fs |-> [f EXCEPT !.dirs = @ \cup chain], err |-> "nil", made |-> chain \ f.dirs]

\* os.WriteFile: creates or replaces a file in an existing directory
WriteFile(f, name, data) ==
    LET a == Abs(name) IN
    IF IsDir(f, a) THEN [fs |-> f, err |-> "EISDIR"]
    ELSE IF ThroughFile(f, a) THEN [fs |-> f, err |-> "ENOTDIR"]
    ELSE IF ~IsDir(f, Dir(a)) THEN [fs |-> f, err |-> "ENOENT"]
    ELSE [fs |-> [f EXCEPT !.files = [x \in DOMAIN f.files \cup {a} |->
                                         IF x = a THEN data ELSE f.files[x]]],
          err |-> "nil"]

\* os.ReadFile
ReadFile(f, name) ==
    LET a == Abs(name) IN
    IF IsFile(f, a) THEN [data |-> f.files[a], err |-> "nil"]
    ELSE IF IsDir(f, a) THEN [data |-> <<>>, err |-> "EISDIR"]
    ELSE IF ThroughFile(f, a) THEN [data |-> <<>>, err |-> "ENOTDIR"]
    ELSE [data |-> <<>>, err |-> "ENOENT"]

\* os.Remove: a file, or a directory that is empty; "." and the root cannot be
\* removed
Remove(f, name) ==
    LET a == Abs(name) IN
    IF IsFile(f, a)
    THEN [fs |-> [f EXCEPT !.files = [x \in DOMAIN f.files \ {a} |-> f.files[x]]], err |-> "nil"]
    ELSE IF IsDir(f, a)
         THEN IF Clean(name) = <<".">> \/ a = Root THEN [fs |-> f, err |-> "EINVAL"]
              ELSE IF HasEntries(f, a) THEN [fs |-> f, err |-> "ENOTEMPTY"]
              ELSE [fs |-> [f EXCEPT !.dirs = @ \ {a}], err |-> "nil"]
    ELSE IF ThroughFile(f, a) THEN [fs |-> f, err |-> "ENOTDIR"]
    ELSE [fs |-> f, err |-> "ENOENT"]

\* os.IsNotExist
IsNotExist(err) == err = "ENOENT"

---------------------------------------------------------------------------
(* LocalStorage *)

\* the key test of Put, Get, Delete and List, on the cleaned key
\* (variant: no key is refused)
InvalidKeyNever(key) == FALSE
InvalidKey(key) == Contains(key, <<".", ".">>)

\* one touch of the file system: what was done to which absolute path
Touch(act, name) == [act |-> act, path |-> Abs(name)]

\* the answer to a refused key
Refusal(op, key0, data) ==
    [op |-> op, key |-> key0, data |-> data, err |-> "invalid key", res |-> <<>>, touched |-> {}]

\* LocalStorage.Put
VaultPut(key0, data) ==
    LET key == Clean(key0)
        fullPath == FilepathJoin(baseDir, key)
        m == MkdirAll(fs, Dir(fullPath))
        w == WriteFile(m.fs, fullPath, data) IN
    IF InvalidKey(key) THEN fs' = fs /\ vop' = Refusal("Put", key0, data)
    ELSE IF m.err # "nil"
    THEN /\ fs' = fs
         /\ vop' = [op |-> "Put", key |-> key0, data |-> data, err |-> "create directory",
                    res |-> <<>>, touched |-> {}]
    ELSE /\ fs' = w.fs
         /\ vop' = [op |-> "Put", key |-> key0, data |-> data,
                    err |-> IF w.err # "nil" THEN "write file" ELSE "nil", res |-> <<>>,
                    touched |-> {[act |-> "mkdir", path |-> d] : d \in m.made}
                                \cup (IF w.err = "nil" THEN {Touch("write", fullPath)} ELSE {})]

\* LocalStorage.Get
VaultGet(key0) ==
    LET key == Clean(key0)
        fullPath == FilepathJoin(baseDir, key)
        r == ReadFile(fs, fullPath) IN
    /\ fs' = fs
    /\ IF InvalidKey(key) THEN vop' = Refusal("Get", key0, <<>>)
       ELSE vop' = [op |-> "Get", key |-> key0, data |-> <<>>,
                    err |-> IF r.err = "nil" THEN "nil"
                            ELSE IF IsNotExist(r.err) THEN "file not found" ELSE "read file",
                    res |-> r.data,
                    touched |-> IF r.err = "nil" THEN {Touch("read", fullPath)} ELSE {}]

\* Delete's removal of the directories left empty: from dir upwards until the
\* baseDir string is met or a removal fails
RECURSIVE RemoveEmptyDirs(_, _, _)
RemoveEmptyDirs(f, dir, touched) ==
    IF dir = baseDir THEN [fs |-> f, touched |-> touched]
    ELSE LET r == Remove(f, dir) IN
         IF r.err # "nil" THEN [fs |-> f, touched |-> touched]
         ELSE RemoveEmptyDirs(r.fs, Dir(dir), touched \cup {Touch("rmdir", dir)})

\* LocalStorage.Delete
VaultDelete(key0) ==
    LET key == Clean(key0)
        fullPath == FilepathJoin(baseDir, key)
        r == Remove(fs, fullPath)
        wasDir == IsDir(fs, Abs(fullPath))
        c == RemoveEmptyDirs(r.fs, Dir(fullPath),
                             {Touch(IF wasDir THEN "rmdir" ELSE "remove", fullPath)}) IN
    IF InvalidKey(key) THEN fs' = fs /\ vop' = Refusal("Delete", key0, <<>>)
    ELSE IF r.err # "nil"
    THEN /\ fs' = fs
         /\ vop' = [op |-> "Delete", key |-> key0, data |-> <<>>,
                    err |-> IF IsNotExist(r.err) THEN "nil" ELSE "delete file",
                    res |-> <<>>, touched |-> {}]
    ELSE /\ fs' = c.fs
         /\ vop' = [op |-> "Delete", key |-> key0, data |-> <<>>, err |-> "nil",
                    res |-> <<>>, touched |-> c.touched]

\* filepath.Rel(baseDir, path) for a path in or below the base directory: the
\* elements of path after those of the base
Rel(base, a) ==
    IF Abs(a) = Abs(base) THEN <<".">>
    ELSE IF Abs(base) = Root THEN Tail(Abs(a))
    ELSE SubSeq(Abs(a), Len(Abs(base)) + 2, Len(Abs(a)))

\* LocalStorage.List: filepath.Walk from the joined path; a root that does not
\* exist gives no key, a root that is a file gives that file, directories are
\* walked and skipped.  The keys are kept as a set.
VaultList(prefix0) ==
    LET prefix == Clean(prefix0)
        searchPath == FilepathJoin(baseDir, prefix)
        a == Abs(searchPath)
        found == IF IsFile(fs, a) THEN {a}
                 ELSE {x \in DOMAIN fs.files : Below(x, a)} IN
    /\ fs' = fs
    /\ IF InvalidKey(prefix) THEN vop' = Refusal("List", prefix0, <<>>)
       ELSE IF ~IsFile(fs, a) /\ ~IsDir(fs, a) /\ ThroughFile(fs, a)
       THEN vop' = [op |-> "List", key |-> prefix0, data |-> <<>>, err |-> "walk directory",
                    res |-> {}, touched |-> {}]
       ELSE vop' = [op |-> "List", key |-> prefix0, data |-> <<>>, err |-> "nil",
                    res |-> {Rel(baseDir, x) : x \in found},
                    touched |-> {[act |-> "stat", path |-> x] : x \in found}]

\* the base directories, the keys and the data of the model
BaseDirs == { <<Slash, "v">>, <<".", Slash, "d", Slash, "v">> }

VaultKeys ==
    { <<"a">>, <<"a", "b">>, <<"a", Slash, "b">>, <<".", Slash, "a">>, <<Slash, "a">>, <<>>, <<".">>,
      <<".", ".", Slash, "x">>, <<".", ".", Slash, ".", ".", Slash, "x">>,
      <<"s", Slash, ".", ".", Slash, ".", ".", Slash, "x">> }

VaultData == { <<"1">>, <<"2">> }

Secret == <<"s","e","c","r","e","t">>

\* files of others, outside every base directory
OutsideFiles == { <<Slash, "x">>, <<Slash, "w", Slash, "x">> }

\* NewLocalStorage(baseDir): MkdirAll(baseDir); the write test leaves no trace
NewLocalStorage(base) ==
    MkdirAll([files |-> [x \in OutsideFiles |-> Secret], dirs |-> {Root, Cwd}], base).fs

Put == \E k \in VaultKeys, d \in VaultData : VaultPut(k, d)

Get == \E k \in VaultKeys : VaultGet(k)

Delete == \E k \in VaultKeys : VaultDelete(k)

List == \E k \in VaultKeys \cup {<<"a", Slash>>} : VaultList(k)

InitVault ==
    /\ FnIdle /\ SessIdle /\ RegIdle
    /\ baseDir \in BaseDirs
    /\ fs = NewLocalStorage(baseDir)
    /\ vop = [op |-> "none"]

NextVault ==
    /\ (Put \/ Get \/ Delete \/ List)
    /\ UNCHANGED <<baseDir, fnVars, sessVars, regVars>>

SpecVault == InitVault /\ [][NextVault]_vars

---------------------------------------------------------------------------
(* POST /api/v1/identity/register: registerIdentity, the identities        *)
(* collection and the chain.  Requests are served concurrently, each a      *)
(* step at a time.                                                          *)

MaxRequests == 2

Emails == { <<>>, <<"e","1">>, <<"e","2">> }

\* sig.String() of the signature the chain returns for a transaction
Sig(tx) == <<"s","i","g",":">> \o tx

\* db.GetIdentityByEmail: the first record with the email; the lookup can also
\* fail (the server is not reached, the request's context is done)
GetIdentityByEmail(email) ==
    {"error"} \cup (IF \E j \in 1..Len(identities) : identities[j].Email = email
                    THEN {"found"} ELSE {"none"})

\* the answer of request i
RegAnswer(i, code) == [regs EXCEPT ![i].pc = "done", ![i].status = code]

\* registerIdentity: the body is decoded and its fields are required
RegDecode(i) ==
    /\ regs[i].pc = "start"
    /\ \E decoded \in BOOLEAN :
         regs' = IF ~decoded \/ regs[i].Email = <<>> \/ regs[i].PubKey = <<>> \/ regs[i].SignedTx = <<>>
                 THEN RegAnswer(i, 400)
                 ELSE [regs EXCEPT ![i].pc = "guard"]
    /\ UNCHANGED <<identities, broadcasts>>

\* registerIdentity: the duplicate guard answers 409 when the lookup returns no
\* error
RegGuard(i) ==
    /\ regs[i].pc = "guard"
    /\ \E found \in GetIdentityByEmail(regs[i].Email) :
         regs' = IF found = "found" THEN RegAnswer(i, 409)
                 ELSE [regs EXCEPT ![i].pc = "broadcast"]
    /\ UNCHANGED <<identities, broadcasts>>

\* registerIdentity: SendTransaction; a failure is answered 500
RegBroadcast(i) ==
    /\ regs[i].pc = "broadcast"
    /\ \E sent \in BOOLEAN :
         IF sent
         THEN /\ broadcasts' = Append(broadcasts, [tx |-> regs[i].SignedTx, by |-> i])
              /\ regs' = [regs EXCEPT ![i].pc = "persist", ![i].sig = Sig(regs[i].SignedTx)]
         ELSE /\ regs' = RegAnswer(i, 500)
              /\ UNCHANGED broadcasts
    /\ UNCHANGED identities

\* registerIdentity: CreateIdentity (InsertOne); a failure is answered 500, success
\* 201
RegPersist(i) ==
    /\ regs[i].pc = "persist"
    /\ \E stored \in BOOLEAN :
         IF stored
         THEN /\ identities' = Append(identities, [Email |-> regs[i].Email, PubKey |-> regs[i].PubKey,
                                                   TxHash |-> regs[i].sig, Verified |-> TRUE])
              /\ regs' = RegAnswer(i, 201)
         ELSE /\ regs' = RegAnswer(i, 500)
              /\ UNCHANGED identities
    /\ UNCHANGED broadcasts

\* an identity stored before the requests of the model
Existing == [Email |-> <<"e","1">>, PubKey |-> <<"k","0">>, TxHash |-> <<>>, Verified |-> FALSE]

InitReg ==
    /\ FnIdle /\ SessIdle /\ VaultIdle
    /\ identities \in {<<>>, <<Existing>>}
    /\ broadcasts = <<>>
    /\ regs \in [1..MaxRequests -> [pc : {"start"}, Email : Emails, PubKey : {<<"k">>},
                                    SignedTx : {<<"t">>}, sig : {<<>>}, status : {0}]]

NextReg ==
    /\ \E i \in 1..MaxRequests : RegDecode(i) \/ RegGuard(i) \/ RegBroadcast(i) \/ RegPersist(i)
    /\ UNCHANGED <<fnVars, sessVars, vaultVars>>

SpecReg == InitReg /\ [][NextReg]_vars

---------------------------------------------------------------------------
(* Properties *)

\* the positions of the cmd calls for op
CallsOf(op) == {i \in 1..Len(calls) : calls[i].op = op}

RECURSIVE SumN(_)
SumN(cs) == IF cs = <<>> THEN 0 ELSE cs[1].n + SumN(Tail(cs))

\* every line on the wire was put there by a cmd call: no message line, no
\* terminator
OnlyCommandsOnWire == Len(wire) = SumN(calls)

FieldInjected(f) == Index(f, CRLF) > 0

\* C1: on any connection at most one command is outstanding, and each cmd call
\* whose write succeeded put exactly one command line on the wire, whatever the
\* user, password, sender, recipients and message id are.
C1_OneCommandInFlight ==
    /\ outstanding <= 1
    /\ \A i \in 1..Len(calls) : calls[i].n = 1 \/ (calls[i].n = 0 /\ calls[i].out = "io")

\* C2: when sendMail, fetchInbox or fetchMessage has returned, the transport the
\* request opened, if any, is closed.
C2_ClosedOnReturn ==
    pc \in {"returned", "panicked"} => sock \in {"none", "closed"}

\* a request whose authentication was rejected after the connection was opened
C2_Witness ==
    /\ handler = "fetchInbox" /\ pc = "returned" /\ status = 503
    /\ sock = "closed" /\ opErr.kind = "status"
    /\ \E i \in CallsOf("PASS") : calls[i].out = "rejected"

\* the lines of a stream as the reader's callers see them, line ends trimmed
Contents(stream) == [i \in 1..Len(stream) |-> TrimRight(stream[i], {CR, LF})]

\* "<id> <size>": decimal id, one space, decimal size
WellFormedListLine(l) ==
    \E k \in 2..(Len(l) - 1) :
        /\ l[k] = " "
        /\ AllDigits(SubSeq(l, 1, k - 1))
        /\ AllDigits(SubSeq(l, k + 1, Len(l)))

\* one entry for each well-formed line, in order, none for any other line
RECURSIVE WellFormedEntries(_)
WellFormedEntries(ls) ==
    IF ls = <<>> THEN <<>>
    ELSE (IF WellFormedListLine(ls[1])
          THEN LET k == Index(ls[1], <<" ">>) IN
               <<[ID |-> DecVal(SubSeq(ls[1], 1, k - 1)),
                  Size |-> DecVal(SubSeq(ls[1], k + 1, Len(ls[1])))]>>
          ELSE <<>>)
         \o WellFormedEntries(Tail(ls))

\* C3: for a dot-terminated block, List returns exactly one (id, size) entry for
\* each well-formed "<id> <size>" line before the terminator, in order, and no
\* entry for any other line.
C3_ListKeepsWellFormedOnly ==
    fnOut.op = "List" /\ fnOut.err = NoErr =>
        fnOut.msgs = WellFormedEntries(SubSeq(Contents(fnIn), 1, fnOut.n - 1))

E200 == <<[ID |-> 1, Size |-> 200], [ID |-> 2, Size |-> 150]>>

\* the scripted session of the end-to-end test, with the lines the server sends
\* after LIST
C4Session(afterList) ==
    /\ mock.on
    /\ mock.greeting = RawAll(<< <<"+","O","K"," ","g","r","e","e","t","i","n","g">> >>)
    /\ mock.user = RawAll(<< <<"+","O","K">> >>)
    /\ mock.pass = RawAll(<< <<"+","O","K">> >>)
    /\ mock.list \o mock.listblock = RawAll(afterList)

\* List has returned: its cmd call has read a reply and readDot is over
ListReturned ==
    /\ pc \notin {"fi_list", "fi_dot"}
    /\ \E i \in CallsOf("LIST") : calls[i].out # "sent"

\* C4 as stated: the server answers LIST with exactly "1 200", "2 150", "." and
\* List returns [{1,200},{2,150}].
C4_ListAfterBareLines ==
    C4Session(<< <<"1"," ","2","0","0">>, <<"2"," ","1","5","0">>, <<".">> >>) /\ ListReturned =>
        msgs = E200 /\ opErr = NoErr

\* C4: when the server answers LIST with a "+OK" status line followed by the lines
\* "1 200", "2 150", ".", Connect, Auth and List succeed after USER bob, PASS x and
\* LIST were written in this order, and List returns [{1,200},{2,150}].
C4_ListAfterStatusLine ==
    C4Session(<< <<"+","O","K">>, <<"1"," ","2","0","0">>, <<"2"," ","1","5","0">>, <<".">> >>) =>
        /\ pc \notin {"cp_check", "cp_quit", "cp_close"}
        /\ opErr \in {NoErr, LoadErr}
        /\ status \in {0, 200} \/ opErr = LoadErr
        /\ ListReturned =>
             /\ msgs = E200
             /\ SubSeq(wire, 1, 3) = << Pop3USER(<<"b","o","b">>), Pop3PASS(<<"x">>), Pop3LIST >>
             /\ \A i \in 1..3 : calls[i].out = "ok" /\ calls[i].n = 1

C4_Witness ==
    /\ C4Session(<< <<"+","O","K">>, <<"1"," ","2","0","0">>, <<"2"," ","1","5","0">>, <<".">> >>)
    /\ ListReturned /\ msgs = E200 /\ pc = "returned" /\ status = 200

\* C5 as stated: unstuffing and stuffing are inverse to each other both ways.
C5_ExactInverse ==
    fnOut.op \in {"stuff-unstuff", "unstuff-stuff"} => fnOut.res = fnIn

\* C5: unstuff(stuff(x)) = x for every line x; stuff(unstuff(y)) = y for every
\* line y that does not start with a single "."; stuffing doubles a leading "."
\* and a line not starting with "." is left unchanged by both operations.
C5_UnstuffInvertsStuff ==
    /\ fnOut.op = "stuff-unstuff" =>
         /\ fnOut.res = fnIn
         /\ fnOut.mid = IF HasPrefix(fnIn, <<".">>) THEN <<".">> \o fnIn ELSE fnIn
    /\ fnOut.op = "unstuff-stuff" =>
         /\ ~HasPrefix(fnIn, <<".">>) => fnOut.mid = fnIn /\ fnOut.res = fnIn
         /\ HasPrefix(fnIn, <<".", ".">>) => fnOut.mid = Tail(fnIn) /\ fnOut.res = fnIn

C5_Witness ==
    /\ fnOut.op = "stuff-unstuff" /\ fnIn = <<".", "a">>
    /\ fnOut.mid = <<".", ".", "a">> /\ fnOut.res = <<".", "a">>

\* the final line of a reply: the first whose 4th character is not "-"
IsFinal(l) == Len(l) < 4 \/ l[4] # "-"

\* C6: readResponse consumes the lines up to the first one whose 4th character is
\* not "-"; a first character "4" or "5" of that line gives an error whose text
\* contains the line, anything else gives success with that line.
C6_ReplyDecidedByFinalLine ==
    fnOut.op = "readResponse" =>
        LET ls == Contents(fnIn) IN
        /\ IF \E i \in 1..Len(ls) : IsFinal(ls[i])
           THEN LET f == CHOOSE i \in 1..Len(ls) :
                            IsFinal(ls[i]) /\ \A j \in 1..(i - 1) : ~IsFinal(ls[j])
                    final == ls[f] IN
                /\ fnOut.n = f
                /\ fnOut.resp = final
                /\ IF final # <<>> /\ final[1] \in {"4", "5"}
                   THEN fnOut.err.kind = "status" /\ Index(fnOut.err.text, final) > 0
                   ELSE fnOut.err = NoErr
           ELSE fnOut.err.kind = "io"
        /\ ls = << <<"2","5","0","-","f","e","a","t","u","r","e","1">>,
                   <<"2","5","0","-","f","e","a","t","u","r","e","2">>,
                   <<"2","5","0"," ","O","K">> >>
             => fnOut.n = 3 /\ fnOut.err = NoErr /\ fnOut.resp = <<"2","5","0"," ","O","K">>
        /\ ls # <<>> /\ ls[1] = <<"5","5","0"," ","r","e","j","e","c","t","e","d">>
             => /\ fnOut.err.kind = "status"
                /\ Index(fnOut.err.text, <<"5","5","0"," ","r","e","j","e","c","t","e","d">>) > 0

C6_Witness ==
    /\ fnOut.op = "readResponse"
    /\ Contents(fnIn) = << <<"2","5","0","-","f","e","a","t","u","r","e","1">>,
                           <<"2","5","0","-","f","e","a","t","u","r","e","2">>,
                           <<"2","5","0"," ","O","K">> >>
    /\ fnOut.n = 3 /\ fnOut.err = NoErr

\* the outcomes of a cmd call that got no acceptance: a 4xx/5xx reply, or a failed
\* write or read
Refused == {"rejected", "io"}

\* C7 as stated: whenever AUTH PLAIN is not answered 235, AUTH LOGIN, the user name
\* and the password are all sent before any failure is reported (on a transport
\* that did not fail).
C7_FullLoginBeforeFailure ==
    status = 401 /\ (\A i \in 1..Len(calls) : calls[i].out # "io") =>
        /\ CallsOf("AUTH LOGIN") # {}
        /\ CallsOf("LOGIN user") # {}
        /\ CallsOf("LOGIN pass") # {}

\* C7: Auth first sends AUTH PLAIN; whenever that is not answered 235 it sends AUTH
\* LOGIN before reporting any failure, the user name only after AUTH LOGIN was
\* accepted and the password only after the user name was accepted; Auth fails only
\* when a step of the LOGIN fallback failed, and AUTH LOGIN is never sent when AUTH
\* PLAIN was answered 235.
C7_LoginFallback ==
    /\ \A i \in CallsOf("AUTH PLAIN") :
         /\ calls[i].out \in {"ok"} \cup Refused =>
              IF i = Len(calls) THEN pc = "au_login" /\ status = 0
              ELSE calls[i + 1].op = "AUTH LOGIN"
         /\ calls[i].out = "235" =>
              /\ CallsOf("AUTH LOGIN") \cup CallsOf("LOGIN user") \cup CallsOf("LOGIN pass") = {}
              /\ status # 401
    /\ \A i \in CallsOf("AUTH LOGIN") :
         /\ i > 1 /\ calls[i - 1].op = "AUTH PLAIN" /\ calls[i - 1].out \in {"ok"} \cup Refused
         /\ calls[i].out \in Refused => status = 401 /\ CallsOf("LOGIN user") = {}
    /\ \A i \in CallsOf("LOGIN user") :
         /\ i > 1 /\ calls[i - 1].op = "AUTH LOGIN" /\ calls[i - 1].out = "ok"
         /\ calls[i].out \in Refused => status = 401 /\ CallsOf("LOGIN pass") = {}
    /\ \A i \in CallsOf("LOGIN pass") :
         /\ i > 1 /\ calls[i - 1].op = "LOGIN user" /\ calls[i - 1].out = "ok"
         /\ calls[i].out \in Refused => status = 401
    /\ status = 401 =>
         /\ opErr # NoErr
         /\ \E i \in CallsOf("AUTH LOGIN") \cup CallsOf("LOGIN user") \cup CallsOf("LOGIN pass") :
              calls[i].out \in Refused

\* AUTH PLAIN was rejected and the whole LOGIN fallback went through
C7_Witness ==
    /\ \E i \in CallsOf("AUTH PLAIN") : calls[i].out = "rejected"
    /\ \E i \in CallsOf("AUTH LOGIN") : calls[i].out = "ok"
    /\ \E i \in CallsOf("LOGIN user") : calls[i].out = "ok"
    /\ \E i \in CallsOf("LOGIN pass") : calls[i].out = "ok"
    /\ pc = "sd_mail" /\ status = 0

\* C8: once a RCPT TO is rejected Send returns an error: the only command written
\* after it is the QUIT of Close, so no RCPT TO for a later recipient, no DATA and
\* no message line.
C8_AbortOnRejectedRcpt ==
    \A i \in CallsOf("RCPT TO") :
        calls[i].out = "rejected" =>
            /\ status = 500 /\ opErr.kind = "status"
            /\ pc \in {"df_check", "df_quit", "df_close", "returned"}
            /\ \A j \in (i + 1)..Len(calls) : calls[j].op = "QUIT"
            /\ OnlyCommandsOnWire

\* the first of two recipients was rejected and the handler has returned
C8_Witness ==
    /\ handler = "sendMail" /\ Len(req.To) = 2 /\ pc = "returned" /\ status = 500
    /\ Cardinality(CallsOf("RCPT TO")) = 1
    /\ \E i \in CallsOf("RCPT TO") : calls[i].out = "rejected"

\* C9: Send makes exactly one MAIL FROM call, before any RCPT TO or DATA; when MAIL
\* FROM is rejected Send returns an error and writes no RCPT TO, no DATA and no
\* message line.
C9_OneMailFromFirst ==
    /\ Cardinality(CallsOf("MAIL FROM")) <= 1
    /\ pc \in {"sd_rcpt", "sd_data", "sd_body", "sd_term", "sd_end"} =>
         \E i \in CallsOf("MAIL FROM") : calls[i].out = "ok"
    /\ \A j \in CallsOf("RCPT TO") \cup CallsOf("DATA") :
         \E i \in CallsOf("MAIL FROM") : i < j /\ calls[i].out = "ok"
    /\ \A i \in CallsOf("MAIL FROM") :
         calls[i].out = "rejected" =>
            /\ status = 500 /\ opErr.kind = "status"
            /\ CallsOf("RCPT TO") \cup CallsOf("DATA") = {}
            /\ \A j \in (i + 1)..Len(calls) : calls[j].op = "QUIT"
            /\ OnlyCommandsOnWire

\* MAIL FROM was rejected for a request with recipients, and the handler has returned
C9_Witness ==
    /\ handler = "sendMail" /\ Len(req.To) > 0 /\ pc = "returned" /\ status = 500
    /\ \E i \in CallsOf("MAIL FROM") : calls[i].out = "rejected"

\* C10: on a plaintext dial, when EHLO or HELO was accepted and STARTTLS is not
\* answered 220, Handshake returns success: no TLS handshake is started, the client
\* stays on the plaintext stream and sendMail goes on to Auth.
C10_NoStartTLSIsNoFailure ==
    \A i \in CallsOf("STARTTLS") :
        /\ ~cfg.UseSSL
        /\ i > 1 /\ calls[i - 1].op \in {"EHLO", "HELO"} /\ calls[i - 1].out = "ok"
        /\ calls[i].out \in {"ok"} \cup Refused =>
              /\ conn = "raw"
              /\ pc \notin {"hs_starttls", "hs_tls", "hs_reehlo"}
              /\ status # 503
              /\ IF i = Len(calls) THEN pc = "au_plain" /\ opErr = NoErr
                 ELSE calls[i + 1].op = "AUTH PLAIN"

\* STARTTLS was rejected and Auth is about to start on the plaintext stream
C10_Witness ==
    /\ \E i \in CallsOf("STARTTLS") : calls[i].out = "rejected"
    /\ pc = "au_plain" /\ conn = "raw" /\ sock = "open" /\ status = 0

\* the positions of Close: the write and read of QUIT, and the close of the transport
QuitLabels == {"df_quit", "cp_quit", "pdf_quit"}
CloseLabels == {"df_close", "cp_close", "pdf_close"}

\* where Close goes on after QUIT, whatever QUIT returned
CloseLabelOf(quit) ==
    CASE quit = "df_quit" -> "df_close" [] quit = "cp_quit" -> "cp_close"
      [] quit = "pdf_quit" -> "pdf_close"

\* a step of QUIT in Close: it leaves what the handler has, and goes on to the close
QuitIsIgnored ==
    pc \in QuitLabels /\ conn \in {"raw", "tls"} =>
        /\ opErr' = opErr /\ status' = status
        /\ pc' = IF ph' = "r" THEN pc ELSE CloseLabelOf(pc)

\* C11: Close on a connected session attempts QUIT and then closes the transport in
\* every case: whatever QUIT returned (a failed write, an error reply, a failed
\* read), the next step of Close is the close of the transport, and the outcome of
\* QUIT changes neither the error nor the status the handler has.
C11_CloseIgnoresQuit ==
    /\ [](/\ \A i \in CallsOf("QUIT") :
               /\ i = Len(calls)
               /\ calls[i].out # "sent" => /\ pc \in CloseLabels \cup {"returned"}
                                           /\ pc = "returned" => sock = "closed"
          /\ pc \in CloseLabels => CallsOf("QUIT") # {} /\ conn \in {"raw", "tls"})
    /\ [][QuitIsIgnored]_vars

\* QUIT was answered with an error after a successful Send, and the handler has
\* returned 200 with the transport closed
C11_Witness ==
    /\ handler = "sendMail" /\ pc = "returned" /\ status = 200 /\ opErr = NoErr
    /\ sock = "closed"
    /\ \E i \in CallsOf("QUIT") : calls[i].out = "rejected"

\* C12: every call to Close on a connected session eventually closes the
\* transport, whatever the server does at termination.
C12_CloseEventuallyCloses ==
    (pc \in {"df_check", "cp_check", "pdf_check"} /\ conn \in {"raw", "tls"}) ~> (sock = "closed")

\* Connect of the POP3 client has failed, or has not returned yet: no command was
\* sent, and once the handler has returned the transport is closed
Pop3ConnectFailed ==
    /\ pc \in {"start", "pop_dial", "pop_greet", "returned"}
    /\ calls = <<>>
    /\ pc = "returned" /\ opErr # LoadErr => status = 503 /\ opErr # NoErr /\ sock = "closed"

\* C13: POP3 Connect returns an error for every greeting line that is not a +OK
\* status, and closes the transport it opened before it returns.
C13_GreetingMustBeOK ==
    mock.on /\ ~HasPrefix(Contents(mock.greeting)[1], <<"+","O","K">>) => Pop3ConnectFailed

\* a status line with a 2xx code
Is2xx(line) ==
    Len(line) >= 3 /\ line[1] = "2" /\ AllDigits(SubSeq(line, 2, 3))

\* Connect of the SMTP client has failed, or has not returned yet: sendMail answers
\* 503, the only command is the QUIT of the deferred Close, and the transport is
\* closed
SmtpConnectFailed ==
    \/ pc \in {"start", "smtp_dial", "smtp_greet"}
    \/ status \in {400, 404, 500} /\ calls = <<>> /\ sock = "none"
    \/ /\ status = 503 /\ opErr # NoErr /\ sock = "closed"
       /\ \A i \in 1..Len(calls) : calls[i].op = "QUIT"

\* C14: SMTP Connect returns an error for every greeting whose status is not 2xx,
\* and closes the transport it opened before it returns.
C14_GreetingMustBe2xx ==
    mock.on /\ "smtpgreeting" \in DOMAIN mock =>
        LET g == Contents(mock.smtpgreeting) IN
        ~Is2xx(g[Len(g)]) => SmtpConnectFailed

\* the status lines with which the POP3 server of the model rejects a command
Pop3ErrLines ==
    {TrimRight(s[1], {CR, LF}) : s \in {t \in Pop3Statuses : t # <<>> /\ HasPrefix(t[1], <<"-","E","R","R">>)}}

\* the error Auth returned carries the raw reply line of the server
CarriesRawReply(e) ==
    e.kind = "status" /\ \E l \in Pop3ErrLines : Index(e.text, l) > 0

\* C15: POP3 Auth sends USER first and PASS only after USER was accepted; it fails
\* at the first rejected step with an error carrying the server's raw reply line,
\* and when USER was rejected no PASS line is ever written.
C15_UserThenPass ==
    /\ \A i \in CallsOf("USER") :
         /\ i = 1
         /\ calls[i].out = "rejected" =>
              /\ CallsOf("PASS") = {}
              /\ \A j \in 1..Len(wire) : ~HasPrefix(wire[j], <<"P","A","S","S">>)
              /\ CarriesRawReply(opErr)
              /\ \A j \in 2..Len(calls) : calls[j].op = "QUIT"
              /\ pc = "returned" => status = 503
         /\ calls[i].out = "ok" /\ Len(calls) > 1 => calls[2].op = "PASS"
    /\ \A i \in CallsOf("PASS") :
         /\ i = 2 /\ calls[1].op = "USER" /\ calls[1].out = "ok"
         /\ calls[i].out = "rejected" =>
              /\ CarriesRawReply(opErr)
              /\ \A j \in 3..Len(calls) : calls[j].op = "QUIT"
              /\ pc = "returned" => status = 503

\* USER was rejected and the handler has returned without a PASS
C15_Witness ==
    /\ pc = "returned" /\ status = 503 /\ CarriesRawReply(opErr)
    /\ calls # <<>> /\ calls[1].op = "USER" /\ calls[1].out = "rejected"
    /\ CallsOf("PASS") = {}

\* Handshake returned an error: sendMail answered 503 after Connect had succeeded
HandshakeFailed == status = 503 /\ calls # <<>> /\ calls[1].op = "EHLO"

\* C16 as stated: HELO is sent only when EHLO was answered 4xx/5xx, and Handshake
\* fails only if both EHLO and HELO are rejected (on a transport that did not fail).
C16_FailsOnlyIfBothRejected ==
    (\A i \in 1..Len(calls) : calls[i].out # "io") =>
        /\ \A i \in CallsOf("HELO") : i = 2 /\ calls[1].op = "EHLO" /\ calls[1].out = "rejected"
        /\ HandshakeFailed =>
             /\ calls[1].out = "rejected"
             /\ Len(calls) > 1 /\ calls[2].op = "HELO" /\ calls[2].out = "rejected"

\* C16: Handshake sends EHLO first and HELO only when EHLO failed (a 4xx/5xx reply
\* or a transport error); it returns an error when both EHLO and HELO failed, or
\* when the TLS handshake after a 220 reply to STARTTLS failed, and in no other
\* case.
C16_HeloFallback ==
    /\ handler = "sendMail" /\ calls # <<>> /\ calls[1].op # "QUIT" => calls[1].op = "EHLO"
    /\ \A i \in CallsOf("HELO") : i = 2 /\ calls[1].op = "EHLO" /\ calls[1].out \in Refused
    /\ calls # <<>> /\ calls[1].op = "EHLO" =>
         /\ calls[1].out \in Refused =>
              IF Len(calls) = 1 THEN pc = "hs_helo" /\ status = 0
              ELSE /\ calls[2].op = "HELO"
                   /\ calls[2].out \in Refused => status = 503 /\ opErr # NoErr
         /\ calls[1].out \in {"ok", "220", "235"} => CallsOf("HELO") = {}
    /\ HandshakeFailed =>
         \/ /\ calls[1].out \in Refused
            /\ Len(calls) > 1 /\ calls[2].op = "HELO" /\ calls[2].out \in Refused
         \/ /\ \E i \in CallsOf("STARTTLS") : calls[i].out = "220"
            /\ conn = "raw" /\ opErr = IoErr
            /\ Cardinality(CallsOf("EHLO")) = 1

\* EHLO and HELO were both rejected and sendMail has answered 503
C16_Witness ==
    /\ pc = "returned" /\ status = 503
    /\ Len(calls) > 1
    /\ calls[1].op = "EHLO" /\ calls[1].out = "rejected"
    /\ calls[2].op = "HELO" /\ calls[2].out = "rejected"

\* C17: when STARTTLS is answered 220 and the TLS handshake succeeds, the session
\* is on the TLS stream and EHLO is re-issued exactly once over it; whatever that
\* EHLO returns, Handshake succeeds and sendMail goes on to Auth.
C17_ReEhloBestEffort ==
    /\ \A i \in CallsOf("STARTTLS") :
         calls[i].out = "220" =>
            /\ ~cfg.UseSSL
            /\ conn = "raw" => i = Len(calls) \/ calls[i + 1].op = "QUIT"
            /\ conn = "tls" =>
                 IF i = Len(calls) THEN pc = "hs_reehlo" /\ ph = "w" /\ status = 0
                 ELSE /\ calls[i + 1].op = "EHLO"
                      /\ \A j \in (i + 2)..Len(calls) : calls[j].op # "EHLO"
                      /\ calls[i + 1].out # "sent" =>
                           /\ status # 503
                           /\ IF Len(calls) = i + 1 THEN pc = "au_plain" /\ opErr = NoErr
                              ELSE calls[i + 2].op = "AUTH PLAIN"
    /\ conn = "tls" /\ handler = "sendMail" /\ ~cfg.UseSSL =>
         \E i \in CallsOf("STARTTLS") : calls[i].out = "220"
    /\ pc = "hs_reehlo" => conn = "tls"

\* the EHLO re-issued over TLS was rejected and Auth is about to start
C17_Witness ==
    /\ conn = "tls" /\ pc = "au_plain" /\ status = 0 /\ opErr = NoErr
    /\ Len(calls) > 1
    /\ calls[Len(calls) - 1].op = "STARTTLS" /\ calls[Len(calls) - 1].out = "220"
    /\ calls[Len(calls)].op = "EHLO" /\ calls[Len(calls)].out = "rejected"

\* the lines on the wire after those of the cmd calls up to call d, without the
\* line of a later QUIT
LinesAfterCall(d) ==
    LET from == SumN(SubSeq(calls, 1, d)) + 1
        upto == Len(wire) - SumN(SubSeq(calls, d + 1, Len(calls)))
    IN  SubSeq(wire, from, upto)

\* C18: in Send, message lines and the terminator are written only after the
\* server answered DATA with an intermediate (3xx) status; after any other reply to
\* DATA nothing of the message is written.
C18_DataNeeds3xx ==
    /\ pc \in {"sd_body", "sd_term", "sd_end"} =>
         calls[Len(calls)].op = "DATA" /\ calls[Len(calls)].out = "3xx"
    /\ \A d \in CallsOf("DATA") :
         calls[d].out # "3xx" => LinesAfterCall(d) = <<>>
    /\ CallsOf("DATA") = {} => OnlyCommandsOnWire


\* the lines of text t as Send's loop takes them: the pieces between "\n", without
\* their trailing "\r"; the piece after the last "\n" is one of them
LoopLines(t) ==
    LET parts == Split(t, <<LF>>) IN
    [i \in 1..Len(parts) |-> TrimRight(parts[i], {CR})]

\* line w is line l as dot-stuffing transmits it
StuffedFrom(w, l) == IF l # <<>> /\ l[1] = "." THEN w = <<".">> \o l ELSE w = l

\* Send returned nil and sendMail answered 200
SendSucceeded == handler = "sendMail" /\ status = 200 /\ pc \notin {"sd_body", "sd_term", "sd_end"}

\* C19: what Send writes after DATA is each line of the message, with one "."
\* prepended when it starts with ".", and then a single line "."; no line before
\* that terminator is "."; a Send that wrote the terminator wrote all of the
\* message before it.
C19_StuffedThenOneTerminator ==
    \A d \in CallsOf("DATA") :
       LET L == LinesAfterCall(d) IN
       L # <<>> \/ pc \in {"sd_term", "sd_end"} \/ SendSucceeded =>
       \E date \in Dates :
          LET src == LoopLines(Message(req, date)) IN
          /\ Len(L) <= Len(src) + 1
          /\ \A i \in 1..Len(L) :
               IF i <= Len(src) THEN StuffedFrom(L[i], src[i]) /\ L[i] # <<".">>
               ELSE L[i] = <<".">>
          /\ pc = "sd_term" => Len(L) = Len(src)
          /\ pc = "sd_end" \/ SendSucceeded => Len(L) = Len(src) + 1

C19_Witness ==
    /\ pc = "sd_end" /\ req.Body = <<".", CR, LF, ".", "a">>
    /\ Len(wire) > 3
    /\ wire[Len(wire) - 3] = <<".", ".">>
    /\ wire[Len(wire) - 2] = <<".", ".", "a">>
    /\ wire[Len(wire)] = <<".">>


\* the lines of text t, each ended by CRLF (the last one's CRLF may be missing)
TextLines(t) ==
    LET parts == Split(t, CRLF) IN
    IF parts[Len(parts)] = <<>> THEN SubSeq(parts, 1, Len(parts) - 1) ELSE parts

\* the lines as dot-stuffing transmits them
StuffedLines(ls) ==
    [i \in 1..Len(ls) |-> IF ls[i] # <<>> /\ ls[i][1] = "." THEN <<".">> \o ls[i] ELSE ls[i]]

\* the envelope: the six header lines, a blank line, the lines of the body
Envelope(r, date) ==
    << <<"F","r","o","m",":"," ">> \o r.From,
       <<"T","o",":"," ">> \o Join(r.To, <<",", " ">>),
       <<"S","u","b","j","e","c","t",":"," ">> \o r.Subject,
       <<"D","a","t","e",":"," ">> \o date,
       <<"M","I","M","E","-","V","e","r","s","i","o","n",":"," ","1",".","0">>,
       <<"C","o","n","t","e","n","t","-","T","y","p","e",":"," ","t","e","x","t","/",
         "p","l","a","i","n",";"," ","c","h","a","r","s","e","t","=","U","T","F","-","8">>,
       <<>> >>
    \o TextLines(r.Body)

\* C20: the lines Send has transmitted between the reply to DATA and the
\* terminating "." are exactly the From, To, Subject, Date, MIME-Version and
\* Content-Type header lines, one blank line and the lines of the body, in this
\* order and with no other line before, between or after them.
C20_ExactlyTheEnvelope ==
    pc = "sd_end" =>
       \E date \in Dates :
          LinesAfterCall(Len(calls)) = StuffedLines(Envelope(req, date)) \o << <<".">> >>


\* a line as the server sent it, without the CRLF that ends it
ReceivedLine(raw) ==
    IF Len(raw) >= 2 /\ SubSeq(raw, Len(raw) - 1, Len(raw)) = CRLF
    THEN SubSeq(raw, 1, Len(raw) - 2) ELSE raw

ReceivedLines(stream) == [i \in 1..Len(stream) |-> ReceivedLine(stream[i])]

\* the block of lines ls: those before the first "." line, one "." taken off
\* each that begins with ".."
BlockOf(ls) ==
    LET k == CHOOSE i \in 1..Len(ls) : ls[i] = <<".">> /\ \A j \in 1..(i - 1) : ls[j] # <<".">> IN
    [i \in 1..(k - 1) |-> IF HasPrefix(ls[i], <<".", ".">>) THEN Tail(ls[i]) ELSE ls[i]]

HasDotLine(ls) == \E i \in 1..Len(ls) : ls[i] = <<".">>

\* C21: the block reader returns the received lines in arrival order up to and
\* excluding the first line exactly equal to ".", with one leading "." taken off
\* each line that begins with ".." and every other line unchanged; Retrieve
\* returns these lines joined with CRLF.
C21_BlockUpToFirstDot ==
    fnOut.op = "Retrieve" =>
       LET ls == ReceivedLines(fnIn) IN
       IF HasDotLine(ls)
       THEN /\ fnOut.err = NoErr
            /\ fnOut.lines = BlockOf(ls)
            /\ fnOut.text = Join(BlockOf(ls), CRLF)
       ELSE fnOut.err = IoErr


\* the lines of the block Top was given
TopBlock == BlockOf(Contents(fnIn))

\* position of the first blank line of ls, Len(ls) + 1 when there is none
FirstBlank(ls) ==
    IF \E i \in 1..Len(ls) : ls[i] = <<>>
    THEN CHOOSE i \in 1..Len(ls) : ls[i] = <<>> /\ \A j \in 1..(i - 1) : ls[j] # <<>>
    ELSE Len(ls) + 1

\* line l is a header line of the given (lower-case) name
IsHeader(l, name) ==
    /\ l # <<>> /\ l[1] \notin {" ", "\t"}
    /\ \E k \in 1..(Len(l) - 1) :
         /\ SubSeq(l, k, k + 1) = <<":", " ">> /\ Index(l, <<":", " ">>) = k
         /\ ToLower(SubSeq(l, 1, k - 1)) = name

\* the value of header name in the header part hs: that of its last header
\* line of that name, empty when there is none
HeaderValue(hs, name) ==
    LET at == {i \in 1..Len(hs) : IsHeader(hs[i], name)} IN
    IF at = {} THEN <<>>
    ELSE LET i == CHOOSE x \in at : \A y \in at : y <= x IN
         SubSeq(hs[i], Len(name) + 3, Len(hs[i]))

\* from, subject and date of m are those of the header part of block ls
HeadersFrom(m, ls) ==
    LET hs == SubSeq(ls, 1, FirstBlank(ls) - 1) IN
    /\ m.From = HeaderValue(hs, <<"f","r","o","m">>)
    /\ m.Subject = HeaderValue(hs, <<"s","u","b","j","e","c","t">>)
    /\ m.Date = HeaderValue(hs, <<"d","a","t","e">>)

\* C22: Top takes from, subject and date from the header part of the block; the
\* body is everything after the first blank line exactly when previewLines > 0
\* and the block has a blank line, and is empty otherwise; with previewLines = 0
\* it is always empty.
C22_TopBody ==
    fnOut.op = "Top" /\ fnOut.err = NoErr =>
       LET ls == TopBlock
           k == FirstBlank(ls) IN
       /\ HeadersFrom(fnOut.msg, ls)
       /\ fnOut.msg.Body = IF fnOut.bodyLines > 0 /\ k <= Len(ls)
                           THEN Join(SubSeq(ls, k + 1, Len(ls)), CRLF)
                           ELSE <<>>


\* a non-blank line that is no "name: value"
Unparsable(l) == l # <<>> /\ Index(l, <<":", " ">>) = 0

Parsable(l) == ~Unparsable(l)

\* C23: malformed content in a dot-terminated block fails neither List nor Top;
\* List's entries are those it obtains from the well-formed lines alone, and
\* Top's header values are those it obtains from the block without its
\* unparsable lines.
C23_MalformedIsSkipped ==
    /\ fnOut.op = "List" /\ HasDotLine(Contents(fnIn)) =>
         /\ fnOut.err = NoErr
         /\ fnOut.msgs = ListEntries(SelectSeq(BlockOf(Contents(fnIn)), WellFormedListLine))
    /\ fnOut.op = "Top" /\ HasDotLine(Contents(fnIn)) =>
         /\ fnOut.err = NoErr
         /\ LET h == ParseHeaders(Join(SelectSeq(TopBlock, Parsable), CRLF)) IN
            /\ fnOut.msg.From = MapGet(h, <<"f","r","o","m">>)
            /\ fnOut.msg.Subject = MapGet(h, <<"s","u","b","j","e","c","t">>)
            /\ fnOut.msg.Date = MapGet(h, <<"d","a","t","e">>)


\* the reply to STARTTLS came with plaintext lines behind the 220 line
PlaintextBehind220 == mock.on /\ "starttls" \in DOMAIN mock /\ Len(mock.starttls) > 1

\* a reply is read while the client is on the TLS stream
ReadOnTls == conn = "tls" /\ ph = "r" /\ ph' = "w"

\* the reply just read was taken from the transport, not from lines the reader held
ReadFromTransport == reader = <<>> /\ reader' = <<>>

\* C24: after a successful STARTTLS upgrade nothing received in plaintext, lines
\* read ahead behind the 220 line included, is taken as (part of) the reply to a
\* later command: the reader of the TLS stream never holds such lines, and every
\* reply read after the upgrade comes from the TLS stream.
C24_NoPlaintextAfterUpgrade ==
    /\ [](conn = "tls" => reader = <<>>)
    /\ [][ReadOnTls => ReadFromTransport]_vars

C24_Witness ==
    /\ PlaintextBehind220 /\ conn = "tls" /\ reader = <<>>
    /\ pc = "sd_mail" /\ opErr = NoErr
    /\ Len(calls) > 2
    /\ calls[Len(calls) - 2].op = "STARTTLS" /\ calls[Len(calls) - 2].out = "220"
    /\ calls[Len(calls) - 1].op = "EHLO" /\ calls[Len(calls) - 1].out = "rejected"
    /\ calls[Len(calls)].op = "AUTH PLAIN" /\ calls[Len(calls)].out = "235"


\* the base directory, as the system resolves it
Base == Abs(baseDir)

\* absolute path a is not outside the base directory
Inside(a) == a = Base \/ Below(a, Base)

\* key names a place that is neither the base directory nor below it
Escapes(key) ==
    ~Inside(Abs(baseDir \o <<Slash>> \o key))

FileActs == {"read", "write", "remove", "stat"}

\* C25: Put, Get and Delete refuse every key that resolves outside the base
\* directory, touching nothing; no call reads, writes or removes a file outside the
\* base directory, the files there stay as they were, and no call creates a file
\* outside the base directory.
C25_NoEscape ==
    /\ vop.op \in {"Put", "Get", "Delete"} /\ Escapes(vop.key) =>
         vop.err = "invalid key" /\ vop.touched = {}
    /\ vop.op # "none" =>
         \A t \in vop.touched : t.act \in FileActs => Inside(t.path)
    /\ \A x \in OutsideFiles : IsFile(fs, x) /\ fs.files[x] = Secret
    /\ \A x \in DOMAIN fs.files : x \in OutsideFiles \/ Inside(x)

C25_Witness ==
    /\ baseDir = <<".", Slash, "d", Slash, "v">>
    /\ vop.op = "Put" /\ vop.key = <<".", ".", Slash, ".", ".", Slash, "x">>
    /\ vop.err = "invalid key"
    /\ IsFile(fs, <<Slash, "w", Slash, "d", Slash, "v", Slash, "a">>)
    /\ fs.files[<<Slash, "w", Slash, "x">>] = Secret


\* what Get(k) answers on file system f: the data, or a failure
GetOf(f, k) ==
    LET r == ReadFile(f, FilepathJoin(baseDir, Clean(k))) IN
    IF InvalidKey(Clean(k)) \/ r.err # "nil" THEN [ok |-> FALSE, data |-> <<>>]
    ELSE [ok |-> TRUE, data |-> r.data]

\* one call, seen as a step of a map from keys to data
MapStep ==
    LET k == vop'.key IN
    /\ vop'.op = "Put" /\ vop'.err = "nil" => GetOf(fs', k) = [ok |-> TRUE, data |-> vop'.data]
    /\ vop'.op = "Delete" /\ vop'.err = "nil" => ~GetOf(fs', k).ok
    /\ vop'.op = "Delete" /\ ~GetOf(fs, k).ok => vop'.err = "nil"
    /\ vop'.op = "Get" =>
         /\ (vop'.err = "nil") = GetOf(fs, k).ok
         /\ vop'.res = GetOf(fs, k).data
    /\ \A k2 \in VaultKeys :
         k2 # k \/ vop'.op \in {"Get", "List"} \/ vop'.err # "nil" => GetOf(fs', k2) = GetOf(fs, k2)

\* C26: LocalStorage is a map from keys to data: Get(k) answers the data of the
\* last successful Put(k, d) not followed by Delete(k) and fails when there is
\* none, Put and Delete of a key leave Get of every other key as it was, and
\* Delete of a key that does not exist succeeds.
C26_KeyToBytesMap == [][MapStep]_vars


\* the keys stored: the files in the base directory and below it, by their path
\* from the base
StoredKeys == {Rel(baseDir, x) : x \in {y \in DOMAIN fs.files : Below(y, Base)}}

\* C27: List(prefix) returns exactly the stored keys whose string starts with
\* prefix, for every prefix it does not refuse: all keys for the empty one, none
\* when none matches.
C27_ListByStringPrefix ==
    vop.op = "List" /\ vop.err # "invalid key" =>
       /\ vop.err = "nil"
       /\ vop.res = {k \in StoredKeys : HasPrefix(k, vop.key)}


\* an identity is stored for the email
Registered(email) == \E j \in 1..Len(identities) : identities[j].Email = email

\* request i has had a transaction broadcast
HasBroadcast(i) == \E b \in 1..Len(broadcasts) : broadcasts[b].by = i

\* a step of request i through the duplicate guard
PassesGuard(i) == regs[i].pc = "guard" /\ regs'[i].pc # "guard"

\* what a step of a request may do to the store
RegStep ==
    \A i \in 1..MaxRequests :
       /\ PassesGuard(i) /\ Registered(regs[i].Email) =>
            regs'[i].pc = "done" /\ regs'[i].status = 409 /\ UNCHANGED <<identities, broadcasts>>
       /\ regs[i].pc = "broadcast" /\ regs'[i].pc = "done" =>
            regs'[i].status = 500 /\ UNCHANGED <<identities, broadcasts>>
       /\ identities' # identities /\ regs[i].pc # regs'[i].pc =>
            /\ regs[i].pc = "persist" /\ HasBroadcast(i)
            /\ identities' = Append(identities, identities'[Len(identities')])
            /\ identities'[Len(identities')].Email = regs[i].Email

\* C28: a registerIdentity request for an email that has a stored identity is
\* answered 409, broadcasts nothing and leaves the store as it is; a failed
\* broadcast is answered 500 with the store unchanged; a record is stored only
\* after the transaction of its request was broadcast.
C28_DuplicateAndBroadcastGuard ==
    /\ [](\A i \in DOMAIN regs : regs[i].status \in {409, 400} => ~HasBroadcast(i))
    /\ [][RegStep]_vars


\* Auth has returned nil: the handler is at Send or past it
AuthSucceeded == handler = "sendMail" /\ (pc = "sd_mail" \/ CallsOf("MAIL FROM") # {})

\* C29: Auth reports success only after a 235 reply, to AUTH PLAIN or to the final
\* step of AUTH LOGIN; any other final reply of AUTH LOGIN (334, 250) is no
\* success.
C29_AuthNeeds235 ==
    AuthSucceeded =>
        \E i \in CallsOf("AUTH PLAIN") \cup CallsOf("LOGIN pass") : calls[i].out = "235"


\* C30: Send issues DATA only after at least one RCPT TO was accepted, also when
\* the request's list of recipients is empty or missing.
C30_DataNeedsRecipient ==
    \A d \in CallsOf("DATA") :
        \E i \in CallsOf("RCPT TO") : i < d /\ calls[i].out \notin {"sent", "io", "rejected"}


\* a step on a closed transport: no command is issued on it and it is not closed
\* again
ClosedIsLeftAlone ==
    sock = "closed" => calls' = calls /\ ~(pc \in CloseLabels /\ pc' # pc)

\* C31: once the transport of a session has been closed (by Connect after a
\* rejected greeting, or by Close) no later operation of the session writes a
\* command to it and it is not closed a second time; in sendMail the deferred Close
\* after a rejected greeting writes nothing and closes nothing.
C31_ClosedTransportUntouched == [][ClosedIsLeftAlone]_vars


\* the positions where Close tests c.conn
CheckLabels == {"df_check", "cp_check", "pdf_check"}

\* a step of Close on a session without a transport: it returns at once, with no
\* command, no write and no close
CloseWithoutTransport ==
    pc \in CheckLabels /\ conn \notin {"raw", "tls"} =>
        /\ pc' = "returned"
        /\ UNCHANGED <<calls, wire, sock, opErr>>

\* C32: Close on a session that holds no open transport is a no-op without I/O and
\* without error, also after a Connect that failed while dialing, in plaintext
\* mode and with UseSSL alike.
C32_CloseWithoutTransportIsNoop ==
    /\ [](pc # "panicked")
    /\ [][CloseWithoutTransport]_vars


\* a step of the TLS handshake that fails: Handshake returns the error and conn
\* and reader stay the plaintext stream
FailedUpgradeKeepsPlaintext ==
    pc = "hs_tls" /\ pc' # pc /\ pc' # "hs_reehlo" =>
        /\ pc' = "df_check" /\ opErr' # NoErr /\ status' = 503
        /\ conn = "raw" /\ UNCHANGED <<conn, reader>>

\* C33: STARTTLS is sent only on a session dialed in plaintext and at most once per
\* Handshake, never on an implicit-TLS session; when the TLS handshake after a 220
\* reply fails, Handshake returns an error and the session is not switched to the
\* TLS stream.
C33_StartTlsOnlyPlaintextOnce ==
    /\ [](/\ CallsOf("STARTTLS") # {} => ~cfg.UseSSL
          /\ \A i, j \in CallsOf("STARTTLS") : i = j
          /\ pc \in {"hs_starttls", "hs_tls", "hs_reehlo"} => ~cfg.UseSSL
          /\ conn = "tls" /\ ~cfg.UseSSL =>
               \E i \in CallsOf("STARTTLS") : calls[i].out = "220")
    /\ [][FailedUpgradeKeepsPlaintext]_vars

\* STARTTLS was answered 220 on a plaintext session, the TLS handshake failed and
\* the handler has answered 503 with the session still on the plaintext stream
C33_Witness ==
    /\ handler = "sendMail" /\ ~cfg.UseSSL /\ conn = "raw"
    /\ status = 503 /\ opErr # NoErr /\ pc = "returned"
    /\ \E i \in CallsOf("STARTTLS") : calls[i].out = "220" /\ i = Len(calls) - 1
    /\ calls[Len(calls)].op = "QUIT"


\* the header names Top reports, and the field of the message for each
TopHeaders == { <<"f","r","o","m">>, <<"s","u","b","j","e","c","t">>, <<"d","a","t","e">> }

TopField(m, name) ==
    CASE name = <<"f","r","o","m">> -> m.From
      [] name = <<"s","u","b","j","e","c","t">> -> m.Subject
      [] name = <<"d","a","t","e">> -> m.Date

\* C34: header extraction for Top reads only the lines before the first empty line
\* of the block: a line after it never changes from, subject or date; names match
\* without regard to case; a line starting with space or tab is skipped and
\* leaves the value of the header before it; of a header that occurs twice the
\* last occurrence is returned.
C34_HeadersBeforeFirstBlank ==
    fnOut.op = "Top" /\ fnOut.err = NoErr =>
       LET hs == SubSeq(TopBlock, 1, FirstBlank(TopBlock) - 1) IN
       \A name \in TopHeaders :
          /\ TopField(fnOut.msg, name) = HeaderValue(hs, name)
          /\ TopField(fnOut.msg, name) = TopField(TopMessage(1, fnOut.bodyLines, hs), name)

\* Top of a block with "SUBJECT: y", an empty line and "Subject: x" in the body:
\* the subject is y
C34_Witness ==
    /\ fnOut.op = "Top" /\ fnOut.err = NoErr
    /\ TopBlock = << <<"S","U","B","J","E","C","T",":"," ","y">>, <<>>,
                     <<"S","u","b","j","e","c","t",":"," ","x">> >>
    /\ fnOut.msg.Subject = <<"y">>


\* the positions of the set S, highest first
RECURSIVE Descending(_)
Descending(S) ==
    IF S = {} THEN <<>>
    ELSE LET m == CHOOSE x \in S : \A y \in S : y <= x IN <<m>> \o Descending(S \ {m})

\* ms are the entries of list at the positions S, highest first, each with its
\* id and size
AreEntries(ms, list, S) ==
    LET at == Descending(S) IN
    /\ Len(ms) = Len(at)
    /\ \A j \in 1..Len(ms) : ms[j].ID = list[at[j]].ID /\ ms[j].Size = list[at[j]].Size

\* the limit of a query: its positive integer, 20 otherwise
QueryLimit == IF Atoi(req.Limit).ok /\ Atoi(req.Limit).val > 0 THEN Atoi(req.Limit).val ELSE 20

\* the positions of the entries fetchInbox asks TOP for: the last QueryLimit ones
Recent == { i \in 1..Len(msgs) : i > Len(msgs) - QueryLimit }

\* a step of Top in fetchInbox's loop: the entry is added with its id and size or
\* left out, and the request goes on as it was
TopStep ==
    handler = "fetchInbox" /\ pc \in {"fi_top", "fi_topdot"} =>
        /\ status' = status /\ opErr' = opErr /\ msgs' = msgs
        /\ pc' \in {"fi_top", "fi_topdot", "fi_respond"}
        /\ \/ messages' = messages
           \/ /\ Len(messages') = Len(messages) + 1
              /\ SubSeq(messages', 1, Len(messages)) = messages
              /\ messages'[Len(messages')].ID = msgs[idx].ID
              /\ messages'[Len(messages')].Size = msgs[idx].Size

\* C35: fetchInbox reports total = the number of entries List returned and at most
\* limit messages (limit = the positive integer of the query, 20 otherwise): they
\* are entries with the highest positions in the LIST order, newest first, each
\* with the size from LIST; an entry whose TOP fails is left out without failing
\* the request or changing the order of the others.
C35_InboxNewestFirst ==
    /\ [](handler = "fetchInbox" /\ body # <<>> =>
            /\ status = 200
            /\ body.total = Len(msgs)
            /\ Len(body.messages) <= QueryLimit
            /\ Cardinality(CallsOf("TOP")) = Cardinality(Recent)
            /\ \E S \in SUBSET Recent : AreEntries(body.messages, msgs, S))
    /\ [][TopStep]_vars

\* three messages listed, limit 2: TOP of the newest failed and the answer holds
\* the one before it alone, with its size
C35_Witness ==
    /\ handler = "fetchInbox" /\ body # <<>> /\ req.Limit = <<"2">>
    /\ body.total = 3 /\ Len(body.messages) = 1
    /\ body.messages[1].ID = 2 /\ body.messages[1].Size = 200
    /\ calls[Len(calls)].op = "TOP" /\ calls[Len(calls) - 1].op = "TOP"
    /\ calls[Len(calls) - 1].out = "rejected"


\* the path Delete's key names
DeleteTarget(key) == Abs(FilepathJoin(baseDir, Clean(key)))

\* what a Delete took away: of the files only the one the key names, of the
\* directories only ones that were empty of files and lie strictly below the base
\* directory
DeleteStaysBelowBase ==
    vop'.op = "Delete" /\ fs' # fs =>
        /\ \A x \in DOMAIN fs.files :
              IF x \in DOMAIN fs'.files THEN fs'.files[x] = fs.files[x]
              ELSE x = DeleteTarget(vop'.key)
        /\ DOMAIN fs'.files \subseteq DOMAIN fs.files
        /\ fs'.dirs \subseteq fs.dirs
        /\ \A d \in fs.dirs \ fs'.dirs : Below(d, Base)

\* C36: Delete removes only the target file and directories that are empty and
\* strictly below the base directory: for every base directory, a relative one
\* that is not normalised included, and every key, "" and "." included, Delete
\* removes neither the base directory nor a directory above it.
C36_DeleteKeepsBase ==
    /\ [](IsDir(fs, Base) /\ \A d \in Above(Base) : IsDir(fs, d))
    /\ [][DeleteStaysBelowBase]_vars


\* the stored records for the email
RecordsOf(email) == { j \in 1..Len(identities) : identities[j].Email = email }

\* the broadcasts made by requests for the email
BroadcastsFor(email) == { b \in 1..Len(broadcasts) : regs[broadcasts[b].by].Email = email }

\* C37: after any interleaving of concurrent registerIdentity requests at most one
\* identity record is stored for each email address and at most one transaction
\* was broadcast per stored email: two concurrent requests for the same email
\* cannot both pass the duplicate guard and both persist.
C37_OneRecordPerEmail ==
    \A email \in Emails :
        /\ Cardinality(RecordsOf(email)) <= 1
        /\ RecordsOf(email) # {} => Cardinality(BroadcastsFor(email)) <= 1

=============================================================================
